---- MODULE Spec2Model ----
(***************************************************************************)
(* The temperature aggregation server: the /api/all/:city handler, the     *)
(* safeFetch wrapper with its abort timer, and the scrape cache            *)
(* (scrapeForecastForDay).  Spec models the caching server                 *)
(* (src/unnamed/part_001, lines 1-155); SpecServer models src/server.js.   *)
(*                                                                         *)
(* Time is in milliseconds.  Temperatures are integers in tenths of a      *)
(* degree.  A JavaScript number that may be NaN/undefined is a sequence:   *)
(* <<n>> is the number n and << >> is NaN (or null/undefined).             *)
(***************************************************************************)
EXTENDS Integers, Sequences, FiniteSets, TLC

\* ------------------------------------------------------------- bounds
\* The clock readings a behaviour goes through after the first.
MaxTicks == 5

\* The clock readings a behaviour of server.js goes through after the first.
ServerMaxTicks == 1

\* The clock readings a behaviour of the older server goes through after
\* the first.
OldMaxTicks == 3

\* The concurrent requests of the caching server.
Reqs == {1, 2}

\* The converters' arguments run over the hundredths of a degree from
\* -MaxHundredths to 2 * MaxHundredths.
MaxHundredths == 6000

\* -------------------------------------------------- program constants
CACHE_TTL == 5 * 60 * 1000

AdapterTimeoutMs == 15000

ScrapeTimeoutMs == 10000

ScrapeDelayMs == 1500

\* scrapeForecast: the stagger of the per-day queries of one target, and the
\* wait after each target.
DayStaggerMs == 1000

TargetGapMs == 2000

\* One calendar day, the unit of Date.setDate / toISOString().split('T')[0].
DAY_MS == 24 * 60 * 60 * 1000

\* The clock is sampled every half TTL, so that a lookup can fall exactly
\* on ts + CACHE_TTL and strictly inside the window.
STEP == CACHE_TTL \div 2

\* The first clock reading: 12.5 minutes before midnight UTC of day 1, so
\* that midnight is crossed by the fifth reading after it.
T0 == DAY_MS - 5 * STEP

\* ---------------------------------------------------- JavaScript values
NaN == << >>

Num(n) == <<n>>

IsNaN(x) == x = << >>

\* parseInt(req.query.day || '0'): the query strings the model sends.
DayInputs == {"absent", "1", "5", "abc"}

ParseDay(q) ==
  CASE q = "absent" -> Num(0)
    [] q = "1" -> Num(1)
    [] q = "5" -> Num(5)
    [] OTHER -> NaN

\* req.params.city.toLowerCase()
CityInputs == {"Paris", "atlantis", "constructor"}

ToLowerCase(s) ==
  CASE s = "Paris" -> "paris"
    [] s = "Dallas" -> "dallas"
    [] s = "London" -> "london"
    [] OTHER -> s

\* Mutant: Math.floor in place of Math.round.
RoundDivFloor(p, q) == p \div q

\* Math.round(x * 10) / 10 of a rational p/q (q > 0) given in tenths:
\* floor(p/q + 1/2), JavaScript's round-half-up.
RoundDiv(p, q) == (2 * p + q) \div (2 * q)

\* cToF / fToC on tenths of a degree; null stays null.
cToF(c) == IF c = << >> THEN << >> ELSE Num(RoundDiv(c[1] * 9 + 1600, 5))

fToC(f) == IF f = << >> THEN << >> ELSE Num(RoundDiv((f[1] - 320) * 5, 9))

\* ------------------------------------------------------ station registry
\* STATIONS of the caching server.  scrapperUrls keeps each target's id.
STATIONS ==
  [ london |-> [ kind |-> "station", icao |-> "EGLL", displayName |-> "LONDON", unit |-> "C",
                 openMeteoModels |-> <<"ECMWF", "GFS", "AROME", "UKMO">>,
                 scrapperUrls |-> <<"metoffice", "wunderground", "bbc", "accu">> ],
    paris  |-> [ kind |-> "station", icao |-> "LFPG", displayName |-> "PARIS", unit |-> "C",
                 openMeteoModels |-> <<"ECMWF", "GFS", "AROME", "UKMO">>,
                 scrapperUrls |-> <<"meteo">> ],
    dallas |-> [ kind |-> "station", icao |-> "KDAL", displayName |-> "DALLAS", unit |-> "F",
                 openMeteoModels |-> <<"ECMWF", "GFS">>,
                 scrapperUrls |-> <<"weather_chan">> ],
    miami  |-> [ kind |-> "station", icao |-> "KMIA", displayName |-> "MIAMI", unit |-> "F",
                 openMeteoModels |-> <<"ECMWF", "GFS">>,
                 scrapperUrls |-> <<"weather_chan">> ] ]

\* The property names every object literal inherits from Object.prototype
\* that survive toLowerCase(): STATIONS['constructor'], STATIONS['__proto__'].
InheritedKeys == {"constructor", "__proto__"}

\* STATIONS[city]: an own property, an inherited one (a truthy value with
\* none of a station's fields), or undefined.
Lookup(table, key) ==
  IF key \in DOMAIN table THEN table[key]
  ELSE IF key \in InheritedKeys THEN [kind |-> "inherited"]
  ELSE [kind |-> "undefined"]

\* !cfg
Falsy(cfg) == cfg.kind = "undefined"

\* ------------------------------------------------------------ variables
VARIABLES
  now,        \* Date.now(), the last clock reading
  ticks,      \* clock readings taken so far
  CACHE,      \* the scrape cache: key -> [ts, data]
  pc,         \* each request's position in the handler
  city,       \* req.params.city.toLowerCase()
  dayOffset,  \* parseInt(req.query.day || '0')
  tasks,      \* the handler's tasks array: the slots of the adapters launched
  fetch,      \* the safeFetch calls of each request, by slot
  sources,    \* the handler's sources array
  scraped,    \* scrapeForecastForDay's scraped array
  site,       \* index of the scrape target being queried
  dateStr,    \* scrapeForecastForDay's dateStr, as a day number
  cacheKey,   \* scrapeForecastForDay's cacheKey
  delayUntil, \* when the pending setTimeout(r, 1500) is due
  queries,    \* outbound scrape queries each request has issued
  report,     \* what res.json / res.status(400).json sent
  selectedDay, \* the browser client's selectedDay
  cardData,   \* the report the client holds for the city shown
  card,       \* what createCityCard derived at the last render
  convIn,     \* the argument of a converter round trip: unit and hundredths
  convOut,    \* the result of the round trip, in tenths
  results,    \* a search response under extraction: unit and result texts
  extracted,  \* what the result loop captured and pushed for it
  countdown,  \* the v2.1 client's countdown, in seconds
  countdownInterval, \* its countdownInterval: 0 (null) or the last interval id
  intervals,  \* the countdown intervals that are set and not cleared
  cityData,   \* its cityData: city -> day -> the response stored
  calls,      \* its fetchAllData calls in progress
  dashboard   \* what renderAll put on the page at the last render

\* The state no step of a server touches: the browser client's, the
\* argument and result of a round trip through the converters, and the
\* search response of a run of the result loop on its own.
page == <<countdown, countdownInterval, intervals, cityData, calls, dashboard>>

offServer == <<selectedDay, cardData, card, convIn, convOut, results, extracted, page>>

vars == <<now, ticks, CACHE, pc, city, dayOffset, tasks, fetch, sources, scraped,
          site, dateStr, cacheKey, delayUntil, queries, report, offServer>>

\* --------------------------------------------------------------- fetches
\* The safeFetch call sites.  Caching server: the Open-Meteo adapter ("om")
\* and the Brave search query of the scrape loop ("brave").  server.js: its
\* seven adapters.  The older scrapeForecast: the three per-day queries of
\* the target being scraped ("day0", "day1", "day2").
Slots == {"om", "brave",
          "metar", "nws_obs", "nws_forecast", "openmeteo", "iem", "metoffice", "wu",
          "day0", "day1", "day2"}

NoData == [kind |-> "none", val |-> 0]

NoFetch == [st |-> "none", deadline |-> 0, data |-> NoData]

\* safeFetch up to its first await: the abort timer is set, fetch is issued.
StartFetch(timeoutMs) == [st |-> "headers", deadline |-> now + timeoutMs, data |-> NoData]

\* The abort timer is live from setTimeout until clearTimeout(timer), which
\* runs as soon as fetch resolves (the headers) or rejects.
TimerArmed(f) == f.st = "headers"

Unsettled(f) == f.st \in {"headers", "body"}

Settled(f) == f.st \in {"ok", "failed"}

\* A per-day task of scrapeForecast waiting on its setTimeout(r, dayOffset * 1000).
Waiting(f) == f.st = "timer"

\* A timer whose time has come runs before any other callback.
TimerDue ==
  \E r \in Reqs :
    \/ pc[r] \in {"delay", "gap"} /\ now >= delayUntil[r]
    \/ \E s \in Slots :
         (TimerArmed(fetch[r][s]) \/ Waiting(fetch[r][s])) /\ now >= fetch[r][s].deadline

NoReport == [status |-> 0, sources |-> << >>]

\* The client before its first response and its first render.
NoCardData == [unit |-> "", sources |-> << >>]

NoCard == [rendered |-> FALSE]

NoConv == [unit |-> "", val |-> 0]

NoResults == [city |-> "", texts |-> << >>]

NoExtract == [by |-> "none"]

\* The v2.1 client (src/unnamed/part_000).
REFRESH_SECONDS == 60

\* The fetchAllData calls the model lets be in progress at a time, the
\* startRefreshCycle calls of a behaviour, the last day of the selector,
\* and the cities of CITIES the model keeps.
MaxCalls == 2

MaxCycles == 3

MaxDay == 1

CITIES == {"london", "paris"}

Days == 0..MaxDay

CallSlots == 1..MaxCalls

NoCall == [st |-> "free"]

\* The page before the script runs.
PageIdle ==
  /\ countdown = REFRESH_SECONDS
  /\ countdownInterval = 0
  /\ intervals = {}
  /\ cityData = [c \in CITIES |-> [d \in Days |-> << >>]]
  /\ calls = [k \in CallSlots |-> NoCall]
  /\ dashboard = << >>

\* The servers' state after start-up.
ServerInit ==
  /\ now = T0
  /\ ticks = 0
  /\ CACHE = << >>
  /\ pc = [r \in Reqs |-> "idle"]
  /\ city = [r \in Reqs |-> ""]
  /\ dayOffset = [r \in Reqs |-> NaN]
  /\ tasks = [r \in Reqs |-> {}]
  /\ fetch = [r \in Reqs |-> [s \in Slots |-> NoFetch]]
  /\ sources = [r \in Reqs |-> << >>]
  /\ scraped = [r \in Reqs |-> << >>]
  /\ site = [r \in Reqs |-> 0]
  /\ dateStr = [r \in Reqs |-> 0]
  /\ cacheKey = [r \in Reqs |-> << >>]
  /\ delayUntil = [r \in Reqs |-> 0]
  /\ queries = [r \in Reqs |-> 0]
  /\ report = [r \in Reqs |-> NoReport]

Init ==
  /\ ServerInit
  /\ selectedDay = 0
  /\ cardData = NoCardData
  /\ card = NoCard
  /\ convIn = NoConv
  /\ convOut = << >>
  /\ results = NoResults
  /\ extracted = NoExtract
  /\ PageIdle

\* ------------------------------------------------------ provider payloads
\* What res.json() yields for the Open-Meteo call: a body without `daily`,
\* or one with a 3-day series for every configured model (tenths of C).
OMPayloads == {[kind |-> "nodaily", val |-> 0], [kind |-> "daily", val |-> 215]}

\* What the Brave search body yields once the matchers ran over its results:
\* no match, or the integer the first matching result captured (degrees).
BravePayloads == {[kind |-> "nomatch", val |-> 0], [kind |-> "match", val |-> 18]}

Payloads(s) == IF s = "om" THEN OMPayloads ELSE BravePayloads

\* data.daily[key][dayOffset] of a 3-entry series: undefined off the end.
SeriesAt(data, off) ==
  IF ~IsNaN(off) /\ off[1] \in 0..2 THEN Num(data.val) ELSE << >>

\* The Open-Meteo .then callback: one model Source per configured model
\* whose series the body holds.
OMSources(cfg, off, data) ==
  IF data.kind = "daily"
  THEN [i \in 1..Len(cfg.openMeteoModels) |->
          [id |-> <<"model", cfg.openMeteoModels[i]>>, type |-> "model",
           temp_c |-> SeriesAt(data, off), temp_f |-> cToF(SeriesAt(data, off))]]
  ELSE << >>

\* Mutant: no correction, the captured value is taken in the station's unit.
AutoUnitOff(cfg, v) == Num(v)

\* Mutant: the thresholds themselves are reinterpreted too.
AutoUnitInclusive(cfg, v) ==
  IF cfg.unit = "C" /\ v >= 400 THEN fToC(Num(v))
  ELSE IF cfg.unit = "F" /\ v <= 320 THEN cToF(Num(v))
  ELSE Num(v)

\* The auto-unit correction of parseInt(match[1]), in tenths.
AutoUnit(cfg, v) ==
  IF cfg.unit = "C" /\ v > 400 THEN fToC(Num(v))
  ELSE IF cfg.unit = "F" /\ v < 320 THEN cToF(Num(v))
  ELSE Num(v)

\* The Source the scrape loop pushes for a matching result.
ScrapedSource(cfg, siteId, off, v) ==
  LET val == AutoUnit(cfg, v * 10) IN
  [id |-> <<"scraped", siteId, off>>, type |-> "scraped",
   temp_c |-> IF cfg.unit = "C" THEN val ELSE fToC(val),
   temp_f |-> IF cfg.unit = "F" THEN val ELSE cToF(val)]

\* ------------------------------------------------------------ the cache
\* toISOString().split('T')[0] of today + dayOffset, as a day number.
DateStr(t, off) == (t \div DAY_MS) + off[1]

\* Mutant: the key without the calendar date.
CacheKeyNoDate(cfg, off, date) == <<cfg.displayName, off[1], 0>>

\* `${cfg.displayName}_${dayOffset}_${dateStr}`
CacheKey(cfg, off, date) == <<cfg.displayName, off[1], date>>

\* Mutant: the TTL taken in seconds.
CacheHitSeconds(key, t) == key \in DOMAIN CACHE /\ t - CACHE[key].ts < 5 * 60

\* Mutant: an entry still served at exactly ts + TTL.
CacheHitInclusive(key, t) == key \in DOMAIN CACHE /\ t - CACHE[key].ts <= CACHE_TTL

\* Mutant: an entry holding an empty list never expires.
CacheHitEmptyForever(key, t) ==
  key \in DOMAIN CACHE
    /\ (t - CACHE[key].ts < CACHE_TTL \/ CACHE[key].data = << >>)

\* CACHE[cacheKey] && (Date.now() - CACHE[cacheKey].ts < CACHE_TTL)
CacheHit(key, t) == key \in DOMAIN CACHE /\ t - CACHE[key].ts < CACHE_TTL

\* Mutant: an entry already stored under the key is kept (the first
\* sequence to finish wins).
CacheStoreKeepFirst(key, t, data) ==
  [k \in DOMAIN CACHE \cup {key} |->
     IF k = key /\ k \notin DOMAIN CACHE THEN [ts |-> t, data |-> data] ELSE CACHE[k]]

\* CACHE[cacheKey] = { ts: Date.now(), data: scraped }
CacheStore(key, t, data) ==
  [k \in DOMAIN CACHE \cup {key} |->
     IF k = key THEN [ts |-> t, data |-> data] ELSE CACHE[k]]

Cfg(r) == Lookup(STATIONS, city[r])


\* ------------------------------------------------------------- server.js
\* STATIONS of server.js.  "null" stands for null and for an absent field.
ServerSTATIONS ==
  [ london |-> [ kind |-> "station", icao |-> "EGLL", displayName |-> "LONDON", unit |-> "C",
                 openMeteoModels |-> <<"ECMWF", "GFS", "AROME", "UKMO">>,
                 nwsStation |-> "null", nwsGrid |-> "null", iemNetwork |-> "null",
                 metOfficeUrl |-> "gcpvj0v07", wuUrl |-> "gb/london", wuUnit |-> "C" ],
    paris  |-> [ kind |-> "station", icao |-> "LFPG", displayName |-> "PARIS", unit |-> "C",
                 openMeteoModels |-> <<"ECMWF", "GFS", "AROME", "UKMO">>,
                 nwsStation |-> "null", nwsGrid |-> "null", iemNetwork |-> "null",
                 metOfficeUrl |-> "null", wuUrl |-> "fr/paris", wuUnit |-> "C" ],
    dallas |-> [ kind |-> "station", icao |-> "KDAL", displayName |-> "DALLAS", unit |-> "F",
                 openMeteoModels |-> <<"ECMWF", "GFS">>,
                 nwsStation |-> "KDAL", nwsGrid |-> "FWD/85,106", iemNetwork |-> "TX_ASOS",
                 metOfficeUrl |-> "null", wuUrl |-> "us/tx/dallas", wuUnit |-> "F" ],
    miami  |-> [ kind |-> "station", icao |-> "KMIA", displayName |-> "MIAMI", unit |-> "F",
                 openMeteoModels |-> <<"ECMWF", "GFS">>,
                 nwsStation |-> "KMIA", nwsGrid |-> "MFL/76,52", iemNetwork |-> "FL_ASOS",
                 metOfficeUrl |-> "null", wuUrl |-> "us/fl/miami", wuUnit |-> "F" ] ]

\* Mutant: the adapters are launched whatever the station's fields hold.
HasAlways(cfg, field) == cfg.kind = "station"

\* if (cfg.nwsStation) ...: a field of a station that is set.  A value
\* inherited from Object.prototype has none of the fields.
Has(cfg, field) == cfg.kind = "station" /\ cfg[field] # "null"

\* The adapters server.js launches for cfg, in the order it pushes them.
ServerTasks(cfg) ==
  {"metar", "openmeteo"}
    \cup (IF Has(cfg, "nwsStation") THEN {"nws_obs"} ELSE {})
    \cup (IF Has(cfg, "nwsGrid") THEN {"nws_forecast"} ELSE {})
    \cup (IF Has(cfg, "iemNetwork") THEN {"iem"} ELSE {})
    \cup (IF Has(cfg, "metOfficeUrl") THEN {"metoffice"} ELSE {})
    \cup (IF Has(cfg, "wuUrl") THEN {"wu"} ELSE {})

\* The default timeoutMs of server.js's safeFetch and safeFetchText.
ServerTimeoutMs == 10000

\* The cities the model requests of server.js.
ServerCityInputs == {"Paris", "Dallas", "atlantis", "constructor"}

\* What each server.js adapter's body yields: nothing usable, or one value.
\* metar: tenths of C; nws_obs: hundredths of C; nws_forecast: whole F of
\* two daytime periods; openmeteo: tenths of C; iem: tenths of F;
\* metoffice, wu: tenths of the page's unit.
ServerPayloads(a) ==
  {[kind |-> "empty", val |-> 0]} \cup
  CASE a = "metar" -> {[kind |-> "value", val |-> 205]}
    [] a = "nws_obs" -> {[kind |-> "value", val |-> 2104]}
    [] a = "nws_forecast" -> {[kind |-> "value", val |-> 75]}
    [] a = "openmeteo" -> {[kind |-> "value", val |-> 215]}
    [] a = "iem" -> {[kind |-> "value", val |-> 880]}
    [] a = "metoffice" -> {[kind |-> "value", val |-> 190]}
    [] a = "wu" -> {[kind |-> "value", val |-> 200]}
    [] OTHER -> {}

\* cToF of the number p/q degrees Celsius, in tenths.
cToFq(p, q) == Num(RoundDiv(18 * p + 320 * q, q))

\* fToC of the number p/q degrees Fahrenheit, in tenths.
fToCq(p, q) == Num(RoundDiv(50 * (p - 32 * q), 9 * q))

\* The Sources the .then callback of server.js adapter a pushes for `data`.
ServerSources(cfg, a, data) ==
  IF data.kind # "value" THEN << >>
  ELSE CASE a = "metar" ->
              <<[id |-> <<"metar">>, type |-> "live",
                 temp_c |-> Num(data.val), temp_f |-> cToF(Num(data.val))]>>
         [] a = "nws_obs" ->
              <<[id |-> <<"nws_obs">>, type |-> "live",
                 temp_c |-> Num(RoundDiv(data.val, 10)), temp_f |-> cToFq(data.val, 100)]>>
         [] a = "nws_forecast" ->
              <<[id |-> <<"nws_forecast">>, type |-> "forecast",
                 forecasts |-> [i \in 1..2 |->
                    [temp_f |-> Num((data.val + i) * 10),
                     temp_c |-> fToC(Num((data.val + i) * 10))]]]>>
         [] a = "openmeteo" ->
              [i \in 1..Len(cfg.openMeteoModels) |->
                 [id |-> <<"model", cfg.openMeteoModels[i]>>, type |-> "model",
                  days |-> <<0, 1, 2>>,
                  dailyMax |-> [d \in 1..3 |->
                     [temp_c |-> Num(data.val + d), temp_f |-> cToF(Num(data.val + d))]]]]
         [] a = "iem" ->
              <<[id |-> <<"iem">>, type |-> "recorded",
                 temp_f |-> Num(data.val), temp_c |-> fToC(Num(data.val))]>>
         [] a = "metoffice" ->
              <<[id |-> <<"metoffice_scrape">>, type |-> "forecast",
                 forecasts |-> <<[temp_c |-> Num(data.val), temp_f |-> cToF(Num(data.val))]>>]>>
         [] a = "wu" ->
              <<[id |-> <<"wu_scrape">>, type |-> "forecast",
                 forecasts |-> <<[temp_c |-> IF cfg.wuUnit = "F" THEN fToC(Num(data.val))
                                             ELSE Num(data.val),
                                  temp_f |-> IF cfg.wuUnit = "F" THEN Num(data.val)
                                             ELSE cToF(Num(data.val))]>>]>>
         [] OTHER -> << >>

ServerCfg(r) == Lookup(ServerSTATIONS, city[r])

\* The .then callback of the adapter in slot a of request r.
ThenCallback(r, a, data) ==
  IF a = "om" THEN OMSources(Cfg(r), dayOffset[r], data)
  ELSE ServerSources(ServerCfg(r), a, data)

\* ----------------------------------------------------------- the handler
\* Mutant: the handler goes on without awaiting the fan-out.
NoneAwaited(r) == TRUE

\* Mutant: the handler resumes on the first task to settle (a race).
AnySettled(r) == \E s \in tasks[r] : Settled(fetch[r][s])

\* await Promise.all(tasks): every task pushed has settled.
AllSettled(r) == \A s \in tasks[r] : Settled(fetch[r][s])

\* res.json({ ..., sources, ... })
Respond(r, srcs) ==
  /\ sources' = [sources EXCEPT ![r] = srcs]
  /\ report' = [report EXCEPT ![r] = [status |-> 200, sources |-> srcs]]
  /\ pc' = [pc EXCEPT ![r] = "responded"]

\* app.get('/api/all/:city') up to `await Promise.all(tasks)`.
Receive(r, c, q) ==
  /\ pc[r] = "idle"
  /\ \A o \in Reqs : o < r => pc[o] # "idle"
  /\ ~TimerDue
  /\ city' = [city EXCEPT ![r] = ToLowerCase(c)]
  /\ dayOffset' = [dayOffset EXCEPT ![r] = ParseDay(q)]
  /\ LET cfg == Lookup(STATIONS, ToLowerCase(c)) IN
       IF Falsy(cfg)
       THEN /\ report' = [report EXCEPT ![r] = [status |-> 400, sources |-> << >>]]
            /\ pc' = [pc EXCEPT ![r] = "rejected"]
            /\ UNCHANGED <<tasks, fetch>>
       ELSE IF cfg.kind # "station"
       THEN \* cfg.openMeteoModels is undefined: .join throws a TypeError
            /\ pc' = [pc EXCEPT ![r] = "threw"]
            /\ UNCHANGED <<tasks, fetch, report>>
       ELSE /\ tasks' = [tasks EXCEPT ![r] = {"om"}]
            /\ fetch' = [fetch EXCEPT ![r]["om"] = StartFetch(AdapterTimeoutMs)]
            /\ pc' = [pc EXCEPT ![r] = "fanout"]
            /\ UNCHANGED report
  /\ UNCHANGED <<offServer, now, ticks, CACHE, sources, scraped, site, dateStr, cacheKey, delayUntil, queries>>

\* fetch resolved with the response headers; clearTimeout(timer); res.ok.
HeadersArrive(r, s) ==
  /\ fetch[r][s].st = "headers"
  /\ ~TimerDue
  /\ fetch' = [fetch EXCEPT ![r][s].st = "body"]
  /\ UNCHANGED <<offServer, now, ticks, CACHE, pc, city, dayOffset, tasks, sources, scraped, site,
                 dateStr, cacheKey, delayUntil, queries, report>>

\* Mutant: an adapter without its .catch(() => {}): its rejection rejects
\* Promise.all and the handler with it.
AdapterFailAborts(r, a) ==
  /\ a \in tasks[r]
  /\ Unsettled(fetch[r][a])
  /\ ~TimerDue
  /\ fetch' = [fetch EXCEPT ![r][a] = [st |-> "failed", deadline |-> 0, data |-> NoData]]
  /\ pc' = [pc EXCEPT ![r] = "threw"]
  /\ UNCHANGED <<offServer, now, ticks, CACHE, city, dayOffset, tasks, sources, scraped, site,
                 dateStr, cacheKey, delayUntil, queries, report>>

\* The adapter's safeFetch rejects (fetch rejected, !res.ok, or res.json()
\* rejected): .catch(() => {}) swallows it and nothing is pushed.
AdapterFail(r, a) ==
  /\ a \in tasks[r]
  /\ Unsettled(fetch[r][a])
  /\ ~TimerDue
  /\ fetch' = [fetch EXCEPT ![r][a] = [st |-> "failed", deadline |-> 0, data |-> NoData]]
  /\ UNCHANGED <<offServer, now, ticks, CACHE, pc, city, dayOffset, tasks, sources, scraped, site,
                 dateStr, cacheKey, delayUntil, queries, report>>

\* Mutant: one AbortController shared by the request's calls: the abort
\* rejects every pending call of the request.
AdapterTimeoutAbortsAll(r, a) ==
  /\ a \in tasks[r]
  /\ TimerArmed(fetch[r][a])
  /\ now >= fetch[r][a].deadline
  /\ fetch' = [fetch EXCEPT ![r] =
       [s \in Slots |-> IF Unsettled(fetch[r][s])
                        THEN [st |-> "failed", deadline |-> 0, data |-> NoData]
                        ELSE fetch[r][s]]]
  /\ UNCHANGED <<offServer, now, ticks, CACHE, pc, city, dayOffset, tasks, sources, scraped, site,
                 dateStr, cacheKey, delayUntil, queries, report>>

\* The abort timer fires: controller.abort() rejects the pending fetch.
AdapterTimeout(r, a) ==
  /\ a \in tasks[r]
  /\ TimerArmed(fetch[r][a])
  /\ now >= fetch[r][a].deadline
  /\ fetch' = [fetch EXCEPT ![r][a] = [st |-> "failed", deadline |-> 0, data |-> NoData]]
  /\ UNCHANGED <<offServer, now, ticks, CACHE, pc, city, dayOffset, tasks, sources, scraped, site,
                 dateStr, cacheKey, delayUntil, queries, report>>

\* res.json() / res.text() resolved: the adapter's .then callback pushes.
AdapterBody(r, a, data) ==
  /\ a \in tasks[r]
  /\ fetch[r][a].st = "body"
  /\ ~TimerDue
  /\ fetch' = [fetch EXCEPT ![r][a] = [st |-> "ok", deadline |-> 0, data |-> data]]
  /\ sources' = [sources EXCEPT ![r] = @ \o ThenCallback(r, a, data)]
  /\ UNCHANGED <<offServer, now, ticks, CACHE, pc, city, dayOffset, tasks, scraped, site,
                 dateStr, cacheKey, delayUntil, queries, report>>

\* Mutant: a hit renews the entry's timestamp (a sliding TTL).
AfterFanOutSliding(r) ==
  /\ pc[r] = "fanout"
  /\ AllSettled(r)
  /\ ~TimerDue
  /\ IF IsNaN(dayOffset[r])
     THEN /\ pc' = [pc EXCEPT ![r] = "threw"]
          /\ UNCHANGED <<CACHE, sources, report, scraped, site, dateStr, cacheKey, delayUntil>>
     ELSE LET key == CacheKey(Cfg(r), dayOffset[r], DateStr(now, dayOffset[r])) IN
          /\ dateStr' = [dateStr EXCEPT ![r] = DateStr(now, dayOffset[r])]
          /\ cacheKey' = [cacheKey EXCEPT ![r] = key]
          /\ IF CacheHit(key, now)
             THEN /\ Respond(r, sources[r] \o CACHE[key].data)
                  /\ CACHE' = CacheStore(key, now, CACHE[key].data)
                  /\ UNCHANGED <<scraped, site, delayUntil>>
             ELSE /\ pc' = [pc EXCEPT ![r] = "delay"]
                  /\ site' = [site EXCEPT ![r] = 1]
                  /\ delayUntil' = [delayUntil EXCEPT ![r] = now + ScrapeDelayMs]
                  /\ UNCHANGED <<CACHE, sources, report, scraped>>
  /\ UNCHANGED <<offServer, now, ticks, city, dayOffset, tasks, fetch, queries>>

\* The handler resumes after Promise.all and calls scrapeForecastForDay up
\* to its first await: the cache lookup, and on a miss the first delay.
AfterFanOut(r) ==
  /\ pc[r] = "fanout"
  /\ AllSettled(r)
  /\ ~TimerDue
  /\ IF IsNaN(dayOffset[r])
     THEN \* setDate(NaN) makes the Date invalid: toISOString() throws
          /\ pc' = [pc EXCEPT ![r] = "threw"]
          /\ UNCHANGED <<sources, report, scraped, site, dateStr, cacheKey, delayUntil>>
     ELSE LET key == CacheKey(Cfg(r), dayOffset[r], DateStr(now, dayOffset[r])) IN
          /\ dateStr' = [dateStr EXCEPT ![r] = DateStr(now, dayOffset[r])]
          /\ cacheKey' = [cacheKey EXCEPT ![r] = key]
          /\ IF CacheHit(key, now)
             THEN /\ Respond(r, sources[r] \o CACHE[key].data)
                  /\ UNCHANGED <<scraped, site, delayUntil>>
             ELSE /\ pc' = [pc EXCEPT ![r] = "delay"]
                  /\ site' = [site EXCEPT ![r] = 1]
                  /\ delayUntil' = [delayUntil EXCEPT ![r] = now + ScrapeDelayMs]
                  /\ UNCHANGED <<sources, report, scraped>>
  /\ UNCHANGED <<offServer, now, ticks, CACHE, city, dayOffset, tasks, fetch, queries>>

\* The 1500 ms timer fires: the query for the current target is issued.
DelayFire(r) ==
  /\ pc[r] = "delay"
  /\ now >= delayUntil[r]
  /\ fetch' = [fetch EXCEPT ![r]["brave"] = StartFetch(ScrapeTimeoutMs)]
  /\ queries' = [queries EXCEPT ![r] = @ + 1]
  /\ pc' = [pc EXCEPT ![r] = "fetch"]
  /\ delayUntil' = [delayUntil EXCEPT ![r] = 0]
  /\ UNCHANGED <<offServer, now, ticks, CACHE, city, dayOffset, tasks, sources, scraped, site,
                 dateStr, cacheKey, report>>

\* Mutant: a target whose query contributed nothing is queried again (after
\* another delay) instead of being passed over.
ScrapeNextRetry(r, found) ==
  LET cfg == Cfg(r)
      list == scraped[r] \o found IN
  /\ fetch' = [fetch EXCEPT ![r]["brave"] = NoFetch]
  /\ scraped' = [scraped EXCEPT ![r] = list]
  /\ IF found = << >>
     THEN /\ delayUntil' = [delayUntil EXCEPT ![r] = now + ScrapeDelayMs]
          /\ pc' = [pc EXCEPT ![r] = "delay"]
          /\ UNCHANGED <<CACHE, sources, report, site>>
     ELSE IF site[r] < Len(cfg.scrapperUrls)
     THEN /\ site' = [site EXCEPT ![r] = @ + 1]
          /\ delayUntil' = [delayUntil EXCEPT ![r] = now + ScrapeDelayMs]
          /\ pc' = [pc EXCEPT ![r] = "delay"]
          /\ UNCHANGED <<CACHE, sources, report>>
     ELSE /\ CACHE' = CacheStore(cacheKey[r], now, list)
          /\ Respond(r, sources[r] \o list)
          /\ UNCHANGED <<site, delayUntil>>
  /\ UNCHANGED <<offServer, now, ticks, city, dayOffset, tasks, dateStr, cacheKey, queries>>

\* The rest of the loop body after the query settled with `found` (the
\* Sources it pushed): the next target's delay, or the store and the return
\* into the handler, which appends and responds.
ScrapeNext(r, found) ==
  LET cfg == Cfg(r)
      list == scraped[r] \o found IN
  /\ fetch' = [fetch EXCEPT ![r]["brave"] = NoFetch]
  /\ scraped' = [scraped EXCEPT ![r] = list]
  /\ IF site[r] < Len(cfg.scrapperUrls)
     THEN /\ site' = [site EXCEPT ![r] = @ + 1]
          /\ delayUntil' = [delayUntil EXCEPT ![r] = now + ScrapeDelayMs]
          /\ pc' = [pc EXCEPT ![r] = "delay"]
          /\ UNCHANGED <<CACHE, sources, report>>
     ELSE /\ CACHE' = CacheStore(cacheKey[r], now, list)
          /\ Respond(r, sources[r] \o list)
          /\ UNCHANGED <<site, delayUntil>>
  /\ UNCHANGED <<offServer, now, ticks, city, dayOffset, tasks, dateStr, cacheKey, queries>>

\* The query's safeFetch rejects: caught and logged by the loop's try/catch.
ScrapeFail(r) ==
  /\ pc[r] = "fetch"
  /\ Unsettled(fetch[r]["brave"])
  /\ ~TimerDue
  /\ ScrapeNext(r, << >>)

\* The query's abort timer fires.
ScrapeTimeout(r) ==
  /\ pc[r] = "fetch"
  /\ TimerArmed(fetch[r]["brave"])
  /\ now >= fetch[r]["brave"].deadline
  /\ ScrapeNext(r, << >>)

\* Mutant: the loop over the results does not stop at the first match, and a
\* body with matching results pushes a Source for each of two of them.
ScrapeBodyNoBreak(r, data) ==
  /\ pc[r] = "fetch"
  /\ fetch[r]["brave"].st = "body"
  /\ ~TimerDue
  /\ ScrapeNext(r, IF data.kind = "match"
                   THEN <<ScrapedSource(Cfg(r), Cfg(r).scrapperUrls[site[r]],
                                        dayOffset[r][1], data.val),
                          ScrapedSource(Cfg(r), Cfg(r).scrapperUrls[site[r]],
                                        dayOffset[r][1], data.val)>>
                   ELSE << >>)

\* The query's body arrived: the first matching result, if any, is pushed.
ScrapeBody(r, data) ==
  /\ pc[r] = "fetch"
  /\ fetch[r]["brave"].st = "body"
  /\ ~TimerDue
  /\ ScrapeNext(r, IF data.kind = "match"
                   THEN <<ScrapedSource(Cfg(r), Cfg(r).scrapperUrls[site[r]],
                                        dayOffset[r][1], data.val)>>
                   ELSE << >>)

\* The clock moves on to its next reading.
Tick ==
  /\ ticks < MaxTicks
  /\ ~TimerDue
  /\ now' = now + STEP
  /\ ticks' = ticks + 1
  /\ UNCHANGED <<offServer, CACHE, pc, city, dayOffset, tasks, fetch, sources, scraped, site,
                 dateStr, cacheKey, delayUntil, queries, report>>

Next ==
  \/ \E r \in Reqs, c \in CityInputs, q \in DayInputs : Receive(r, c, q)
  \/ \E r \in Reqs, s \in Slots : HeadersArrive(r, s)
  \/ \E r \in Reqs : AdapterFail(r, "om")
  \/ \E r \in Reqs : AdapterTimeout(r, "om")
  \/ \E r \in Reqs, d \in OMPayloads : AdapterBody(r, "om", d)
  \/ \E r \in Reqs : AfterFanOut(r)
  \/ \E r \in Reqs : DelayFire(r)
  \/ \E r \in Reqs : ScrapeFail(r)
  \/ \E r \in Reqs : ScrapeTimeout(r)
  \/ \E r \in Reqs, d \in BravePayloads : ScrapeBody(r, d)
  \/ Tick

Spec == Init /\ [][Next]_vars

\* The handler has finished with request r and is invoked for a further
\* request: the request's locals are gone, the cache stays.
NextRequest(r) ==
  /\ pc[r] \in {"responded", "rejected", "threw"}
  /\ ~TimerDue
  /\ pc' = [pc EXCEPT ![r] = "idle"]
  /\ city' = [city EXCEPT ![r] = ""]
  /\ dayOffset' = [dayOffset EXCEPT ![r] = NaN]
  /\ tasks' = [tasks EXCEPT ![r] = {}]
  /\ fetch' = [fetch EXCEPT ![r] = [s \in Slots |-> NoFetch]]
  /\ sources' = [sources EXCEPT ![r] = << >>]
  /\ scraped' = [scraped EXCEPT ![r] = << >>]
  /\ site' = [site EXCEPT ![r] = 0]
  /\ dateStr' = [dateStr EXCEPT ![r] = 0]
  /\ cacheKey' = [cacheKey EXCEPT ![r] = << >>]
  /\ delayUntil' = [delayUntil EXCEPT ![r] = 0]
  /\ queries' = [queries EXCEPT ![r] = 0]
  /\ report' = [report EXCEPT ![r] = NoReport]
  /\ UNCHANGED <<offServer, now, ticks, CACHE>>

\* A stream of requests for one station on the caching server, at most two
\* of them in progress at a time.
StreamCityInputs == {"Paris"}

StreamDayInputs == {"absent"}

\* The Open-Meteo bodies of the stream: without `daily`.
StreamOMPayloads == {d \in OMPayloads : d.kind = "nodaily"}

StreamNext ==
  \/ \E r \in Reqs, c \in StreamCityInputs, q \in StreamDayInputs : Receive(r, c, q)
  \/ \E r \in Reqs, s \in {"om", "brave"} : HeadersArrive(r, s)
  \/ \E r \in Reqs : AdapterFail(r, "om")
  \/ \E r \in Reqs : AdapterTimeout(r, "om")
  \/ \E r \in Reqs, d \in StreamOMPayloads : AdapterBody(r, "om", d)
  \/ \E r \in Reqs : AfterFanOut(r)
  \/ \E r \in Reqs : DelayFire(r)
  \/ \E r \in Reqs : ScrapeFail(r)
  \/ \E r \in Reqs : ScrapeTimeout(r)
  \/ \E r \in Reqs, d \in BravePayloads : ScrapeBody(r, d)
  \/ \E r \in Reqs : NextRequest(r)
  \/ Tick

SpecStream == Init /\ [][StreamNext]_vars

\* One request for a station with several scrape targets, alone on the
\* caching server: the whole scrape sequence over London's four targets.
SequenceCityInputs == {"London"}

SequenceNext ==
  \/ \E c \in SequenceCityInputs, q \in DayInputs : Receive(1, c, q)
  \/ \E s \in {"om", "brave"} : HeadersArrive(1, s)
  \/ AdapterFail(1, "om")
  \/ AdapterTimeout(1, "om")
  \/ \E d \in OMPayloads : AdapterBody(1, "om", d)
  \/ AfterFanOut(1)
  \/ DelayFire(1)
  \/ ScrapeFail(1)
  \/ ScrapeTimeout(1)
  \/ \E d \in BravePayloads : ScrapeBody(1, d)
  \/ Tick

SpecSequence == Init /\ [][SequenceNext]_vars

\* server.js: app.get('/api/all/:city') up to `await Promise.all(tasks)`.
\* For a value inherited from Object.prototype the METAR call is launched
\* and cfg.openMeteoModels.join then throws a TypeError.
ServerReceive(r, c) ==
  /\ pc[r] = "idle"
  /\ ~TimerDue
  /\ city' = [city EXCEPT ![r] = ToLowerCase(c)]
  /\ LET cfg == Lookup(ServerSTATIONS, ToLowerCase(c)) IN
       IF Falsy(cfg)
       THEN /\ report' = [report EXCEPT ![r] = [status |-> 400, sources |-> << >>]]
            /\ pc' = [pc EXCEPT ![r] = "rejected"]
            /\ UNCHANGED <<tasks, fetch>>
       ELSE IF cfg.kind # "station"
       THEN /\ tasks' = [tasks EXCEPT ![r] = {"metar"}]
            /\ fetch' = [fetch EXCEPT ![r]["metar"] = StartFetch(ServerTimeoutMs)]
            /\ pc' = [pc EXCEPT ![r] = "threw"]
            /\ UNCHANGED report
       ELSE /\ tasks' = [tasks EXCEPT ![r] = ServerTasks(cfg)]
            /\ fetch' = [fetch EXCEPT ![r] =
                 [s \in Slots |-> IF s \in ServerTasks(cfg)
                                  THEN StartFetch(ServerTimeoutMs) ELSE NoFetch]]
            /\ pc' = [pc EXCEPT ![r] = "fanout"]
            /\ UNCHANGED report
  /\ UNCHANGED <<offServer, now, ticks, CACHE, dayOffset, sources, scraped, site, dateStr,
                 cacheKey, delayUntil, queries>>

\* server.js: the handler resumes after Promise.all and responds.
ServerRespond(r) ==
  /\ pc[r] = "fanout"
  /\ AllSettled(r)
  /\ ~TimerDue
  /\ Respond(r, sources[r])
  /\ UNCHANGED <<offServer, now, ticks, CACHE, city, dayOffset, tasks, fetch, scraped, site,
                 dateStr, cacheKey, delayUntil, queries>>

ServerAdapters == Slots \ {"om", "brave"}

\* server.js reads no clock: a new reading matters only to a pending call.
ServerTick ==
  /\ ticks < ServerMaxTicks
  /\ \E a \in ServerAdapters : Unsettled(fetch[1][a])
  /\ Tick

ServerNext ==
  \/ \E c \in ServerCityInputs : ServerReceive(1, c)
  \/ \E a \in ServerAdapters : HeadersArrive(1, a)
  \/ \E a \in ServerAdapters : AdapterFail(1, a)
  \/ \E a \in ServerAdapters : AdapterTimeout(1, a)
  \/ \E a \in ServerAdapters : \E d \in ServerPayloads(a) : AdapterBody(1, a, d)
  \/ ServerRespond(1)
  \/ ServerTick

SpecServer == Init /\ [][ServerNext]_vars

\* ------------------------------------------------------ the older server
\* src/unnamed/part_001, lines 156-507: the handler without a day parameter
\* and scrapeForecast, which queries every target for the three days.
\* Its STATIONS holds the scrape targets and the US feeds of each station.
OldSTATIONS ==
  [c \in DOMAIN STATIONS |->
     [kind |-> "station", icao |-> STATIONS[c].icao,
      displayName |-> STATIONS[c].displayName, unit |-> STATIONS[c].unit,
      openMeteoModels |-> STATIONS[c].openMeteoModels,
      scrapperUrls |-> STATIONS[c].scrapperUrls,
      nwsStation |-> ServerSTATIONS[c].nwsStation,
      nwsGrid |-> ServerSTATIONS[c].nwsGrid,
      iemNetwork |-> ServerSTATIONS[c].iemNetwork]]

OldCfg(r) == Lookup(OldSTATIONS, city[r])

\* The adapters the older handler launches for cfg.
OldTasks(cfg) ==
  {"openmeteo"}
    \cup (IF Has(cfg, "nwsStation") THEN {"nws_obs"} ELSE {})
    \cup (IF Has(cfg, "nwsGrid") THEN {"nws_forecast"} ELSE {})
    \cup (IF Has(cfg, "iemNetwork") THEN {"iem"} ELSE {})

OldAdapters == {"nws_obs", "nws_forecast", "openmeteo", "iem"}

OldCityInputs == {"London", "Dallas", "atlantis", "constructor"}

DaySlots == {"day0", "day1", "day2"}

\* The dayOffset of a per-day task.
DayOf(s) == CASE s = "day0" -> 0 [] s = "day1" -> 1 [] s = "day2" -> 2

\* for (let dayOffset = 0; dayOffset < 3; dayOffset++) dayTasks.push(...):
\* each task runs up to its `await new Promise(r => setTimeout(r,
\* dayOffset * 1000))`.
LaunchDays(f) ==
  [s \in Slots |->
     IF s \in DaySlots
     THEN [st |-> "timer", deadline |-> now + DayOf(s) * DayStaggerMs, data |-> NoData]
     ELSE f[s]]

\* The older handler up to `await Promise.all(tasks)`.  For a value
\* inherited from Object.prototype no feed is configured and
\* cfg.openMeteoModels.join throws a TypeError.
OldReceive(r, c) ==
  /\ pc[r] = "idle"
  /\ ~TimerDue
  /\ city' = [city EXCEPT ![r] = ToLowerCase(c)]
  /\ LET cfg == Lookup(OldSTATIONS, ToLowerCase(c)) IN
       IF Falsy(cfg)
       THEN /\ report' = [report EXCEPT ![r] = [status |-> 400, sources |-> << >>]]
            /\ pc' = [pc EXCEPT ![r] = "rejected"]
            /\ UNCHANGED <<tasks, fetch>>
       ELSE IF cfg.kind # "station"
       THEN /\ pc' = [pc EXCEPT ![r] = "threw"]
            /\ UNCHANGED <<tasks, fetch, report>>
       ELSE /\ tasks' = [tasks EXCEPT ![r] = OldTasks(cfg)]
            /\ fetch' = [fetch EXCEPT ![r] =
                 [s \in Slots |-> IF s \in OldTasks(cfg)
                                  THEN StartFetch(AdapterTimeoutMs) ELSE NoFetch]]
            /\ pc' = [pc EXCEPT ![r] = "fanout"]
            /\ UNCHANGED report
  /\ UNCHANGED <<offServer, now, ticks, CACHE, dayOffset, sources, scraped, site, dateStr,
                 cacheKey, delayUntil, queries>>

\* The handler resumes after Promise.all and calls scrapeForecast(cfg), which
\* runs up to its first await: the three per-day tasks of the first target.
OldAfterFanOut(r) ==
  /\ pc[r] = "fanout"
  /\ AllSettled(r)
  /\ ~TimerDue
  /\ pc' = [pc EXCEPT ![r] = "days"]
  /\ site' = [site EXCEPT ![r] = 1]
  /\ fetch' = [fetch EXCEPT ![r] = LaunchDays(fetch[r])]
  /\ UNCHANGED <<offServer, now, ticks, CACHE, city, dayOffset, tasks, sources, scraped,
                 dateStr, cacheKey, delayUntil, queries, report>>

\* The timer of a per-day task fires: its query is issued.
DayTimerFire(r, s) ==
  /\ pc[r] = "days"
  /\ Waiting(fetch[r][s])
  /\ now >= fetch[r][s].deadline
  /\ fetch' = [fetch EXCEPT ![r][s] = StartFetch(ScrapeTimeoutMs)]
  /\ queries' = [queries EXCEPT ![r] = @ + 1]
  /\ UNCHANGED <<offServer, now, ticks, CACHE, pc, city, dayOffset, tasks, sources, scraped,
                 site, dateStr, cacheKey, delayUntil, report>>

\* A per-day query settles with outcome st, pushing `found`; when it is the
\* last of the target's three, Promise.all(dayTasks) resolves and
\* scrapeForecast goes on to `await new Promise(r => setTimeout(r, 2000))`.
DaySettle(r, s, st, data, found) ==
  LET f == [fetch[r] EXCEPT ![s] = [st |-> st, deadline |-> 0, data |-> data]] IN
  /\ pc[r] = "days"
  /\ fetch' = [fetch EXCEPT ![r] = f]
  /\ scraped' = [scraped EXCEPT ![r] = @ \o found]
  /\ IF \A d \in DaySlots : Settled(f[d])
     THEN /\ pc' = [pc EXCEPT ![r] = "gap"]
          /\ delayUntil' = [delayUntil EXCEPT ![r] = now + TargetGapMs]
     ELSE UNCHANGED <<pc, delayUntil>>
  /\ UNCHANGED <<offServer, now, ticks, CACHE, city, dayOffset, tasks, sources, site,
                 dateStr, cacheKey, queries, report>>

\* The query's safeFetch rejects: .catch logs it.
DayFail(r, s) ==
  /\ Unsettled(fetch[r][s])
  /\ ~TimerDue
  /\ DaySettle(r, s, "failed", NoData, << >>)

\* The query's abort timer fires.
DayTimeout(r, s) ==
  /\ TimerArmed(fetch[r][s])
  /\ now >= fetch[r][s].deadline
  /\ DaySettle(r, s, "failed", NoData, << >>)

\* The query's body arrived: `if (maxTemp) scraped.push(...)`.
DayBody(r, s, data) ==
  /\ fetch[r][s].st = "body"
  /\ ~TimerDue
  /\ DaySettle(r, s, "ok", data,
               IF data.kind = "match" /\ AutoUnit(OldCfg(r), data.val * 10) # Num(0)
               THEN <<ScrapedSource(OldCfg(r), OldCfg(r).scrapperUrls[site[r]],
                                    DayOf(s), data.val)>>
               ELSE << >>)

\* The 2000 ms timer after a target fires: the next target's three tasks,
\* or the return into the handler, which appends and responds.
GapFire(r) ==
  /\ pc[r] = "gap"
  /\ now >= delayUntil[r]
  /\ delayUntil' = [delayUntil EXCEPT ![r] = 0]
  /\ IF site[r] < Len(OldCfg(r).scrapperUrls)
     THEN /\ site' = [site EXCEPT ![r] = @ + 1]
          /\ fetch' = [fetch EXCEPT ![r] = LaunchDays(fetch[r])]
          /\ pc' = [pc EXCEPT ![r] = "days"]
          /\ UNCHANGED <<sources, report>>
     ELSE /\ Respond(r, sources[r] \o scraped[r])
          /\ UNCHANGED <<site, fetch>>
  /\ UNCHANGED <<offServer, now, ticks, CACHE, city, dayOffset, tasks, scraped,
                 dateStr, cacheKey, queries>>

\* The older server reads the clock for its timers only.
OldTick ==
  /\ ticks < OldMaxTicks
  /\ pc[1] \in {"fanout", "days", "gap"}
  /\ Tick

OldNext ==
  \/ \E c \in OldCityInputs : OldReceive(1, c)
  \/ \E a \in OldAdapters \cup DaySlots : HeadersArrive(1, a)
  \/ \E a \in OldAdapters : AdapterFail(1, a)
  \/ \E a \in OldAdapters : AdapterTimeout(1, a)
  \/ \E a \in OldAdapters : \E d \in ServerPayloads(a) : AdapterBody(1, a, d)
  \/ OldAfterFanOut(1)
  \/ \E s \in DaySlots : DayTimerFire(1, s)
  \/ \E s \in DaySlots : DayFail(1, s)
  \/ \E s \in DaySlots : DayTimeout(1, s)
  \/ \E s \in DaySlots, d \in BravePayloads : DayBody(1, s, d)
  \/ GapFire(1)
  \/ OldTick

SpecOld == Init /\ [][OldNext]_vars

\* ---------------------------------------------------- the client's card
\* src/app.js.  The values of a card are integers in hundred-thousandths of
\* a degree, so that 1.5, 1.50001, 3.0 and 3.00001 are all on the grid.
\* A Source is a record with the fields the server gave it; null and an
\* absent field are << >>.
CardValues == {2000000, 2150000, 2150001, 2300000, 2300001}

\* A { temp_c, temp_f } pair around the Celsius value v (the Fahrenheit
\* field only needs to differ from it), and the pair of two nulls.
Entry(v) == [temp_c |-> Num(v), temp_f |-> Num(v + 3200000)]

NullEntry == [temp_c |-> << >>, temp_f |-> << >>]

\* The Sources of the reports the model renders: flat live, recorded and
\* scraped Sources, forecast Sources with one or three entries, and model
\* Sources covering one or three days.
CardSources ==
  {[type |-> "live", temp_c |-> e.temp_c, temp_f |-> e.temp_f] :
     e \in {Entry(v) : v \in CardValues} \cup {NullEntry}}
    \cup {[type |-> "recorded", temp_c |-> Num(2150000), temp_f |-> Num(5350000)]}
    \cup {[type |-> "scraped", temp_c |-> Num(v), temp_f |-> Num(v + 3200000)] :
            v \in {2000000, 2300001}}
    \cup {[type |-> "forecast", forecasts |-> <<Entry(v)>>] : v \in {2150001, 2300000}}
    \cup {[type |-> "forecast",
           forecasts |-> <<Entry(2000000), Entry(2150000), NullEntry>>]}
    \cup {[type |-> "model", days |-> <<1>>, dailyMax |-> <<Entry(v)>>] :
            v \in {2150000, 2300001}}
    \cup {[type |-> "model", days |-> <<1, 2, 3>>,
           dailyMax |-> <<Entry(2150001), Entry(2300000), Entry(2000000)>>]}

\* The reports: a display unit and a list of up to three Sources (of three:
\* a flat Source first, or a forecast between two models).
CardInputs ==
  {[unit |-> u, sources |-> l] :
     u \in {"C", "F"},
     l \in {<< >>} \cup {<<a>> : a \in CardSources}
           \cup {<<a, b>> : a \in CardSources, b \in CardSources}
           \cup {<<a, b, c>> : a \in {x \in CardSources : x.type \in {"live", "scraped"}},
                               b \in CardSources,
                               c \in {x \in CardSources : x.type # "live"}}
           \cup {<<a, b, c>> : a \in {x \in CardSources : x.type = "model"},
                               b \in {x \in CardSources : x.type = "forecast"},
                               c \in {x \in CardSources : x.type = "model"}}}

\* unit === 'F' ? entry.temp_f : entry.temp_c
UnitField(entry, unit) == IF unit = "F" THEN entry.temp_f ELSE entry.temp_c

\* Mutant: a day past the end of a model's day list reads the list's last
\* day.
getPrimaryTempClamped(source, unit, dayIndex) ==
  IF source.type = "model" /\ "dailyMax" \in DOMAIN source /\ "days" \in DOMAIN source
  THEN IF Len(source.days) > 0
       THEN UnitField(source.dailyMax[source.days[IF dayIndex + 1 \in DOMAIN source.days
                                                    THEN dayIndex + 1
                                                    ELSE Len(source.days)]], unit)
       ELSE << >>
  ELSE IF source.type = "forecast" /\ "forecasts" \in DOMAIN source
  THEN IF dayIndex + 1 \in DOMAIN source.forecasts
       THEN UnitField(source.forecasts[dayIndex + 1], unit)
       ELSE << >>
  ELSE IF dayIndex # 0 THEN << >>
  ELSE UnitField(source, unit)

\* Mutant: a flat Source gives its value on every day.
getPrimaryTempEveryDay(source, unit, dayIndex) ==
  IF source.type = "model" /\ "dailyMax" \in DOMAIN source /\ "days" \in DOMAIN source
  THEN IF dayIndex + 1 \in DOMAIN source.days
          /\ source.days[dayIndex + 1] \in DOMAIN source.dailyMax
       THEN UnitField(source.dailyMax[source.days[dayIndex + 1]], unit)
       ELSE << >>
  ELSE IF source.type = "forecast" /\ "forecasts" \in DOMAIN source
  THEN IF dayIndex + 1 \in DOMAIN source.forecasts
       THEN UnitField(source.forecasts[dayIndex + 1], unit)
       ELSE << >>
  ELSE UnitField(source, unit)

\* getPrimaryTemp(source, unit, dayIndex)
getPrimaryTemp(source, unit, dayIndex) ==
  IF source.type = "model" /\ "dailyMax" \in DOMAIN source /\ "days" \in DOMAIN source
  THEN IF dayIndex + 1 \in DOMAIN source.days
          /\ source.days[dayIndex + 1] \in DOMAIN source.dailyMax
       THEN UnitField(source.dailyMax[source.days[dayIndex + 1]], unit)
       ELSE << >>
  ELSE IF source.type = "forecast" /\ "forecasts" \in DOMAIN source
  THEN IF dayIndex + 1 \in DOMAIN source.forecasts
       THEN UnitField(source.forecasts[dayIndex + 1], unit)
       ELSE << >>
  ELSE IF dayIndex # 0 THEN << >>
  ELSE UnitField(source, unit)

\* unit === 'F' ? entry.temp_c : entry.temp_f
OtherField(entry, unit) == IF unit = "F" THEN entry.temp_c ELSE entry.temp_f

\* getSecondaryTemp(source, unit, dayIndex)
getSecondaryTemp(source, unit, dayIndex) ==
  IF source.type = "model" /\ "dailyMax" \in DOMAIN source /\ "days" \in DOMAIN source
  THEN IF dayIndex + 1 \in DOMAIN source.days
          /\ source.days[dayIndex + 1] \in DOMAIN source.dailyMax
       THEN OtherField(source.dailyMax[source.days[dayIndex + 1]], unit)
       ELSE << >>
  ELSE IF source.type = "forecast" /\ "forecasts" \in DOMAIN source
  THEN IF dayIndex + 1 \in DOMAIN source.forecasts
       THEN OtherField(source.forecasts[dayIndex + 1], unit)
       ELSE << >>
  ELSE IF dayIndex # 0 THEN << >>
  ELSE OtherField(source, unit)

\* sources.filter(s => s.type === t)
OfType(srcs, t) == SelectSeq(srcs, LAMBDA x : x.type = t)

\* The loop of createCityCard over a list: temps.push(primary) for every
\* primary != null.
RECURSIVE Temps(_, _, _)
Temps(srcs, unit, dayIndex) ==
  IF srcs = << >> THEN << >>
  ELSE LET primary == getPrimaryTemp(Head(srcs), unit, dayIndex) IN
       (IF primary # << >> THEN <<primary[1]>> ELSE << >>)
         \o Temps(Tail(srcs), unit, dayIndex)

\* The loop of createCityCard over a list: sourceRows.push(...) for every
\* Source but a live or recorded one on a day other than today.  A row is
\* the Source with the two values its tempDisplay is built from.
RECURSIVE SourceRows(_, _, _)
SourceRows(srcs, unit, dayIndex) ==
  IF srcs = << >> THEN << >>
  ELSE LET src == Head(srcs) IN
       (IF src.type \in {"live", "recorded"} /\ dayIndex # 0 THEN << >>
        ELSE <<[src |-> src,
                primary |-> getPrimaryTemp(src, unit, dayIndex),
                secondary |-> getSecondaryTemp(src, unit, dayIndex)]>>)
         \o SourceRows(Tail(srcs), unit, dayIndex)

\* temps.reduce((a, b) => a + b, 0)
RECURSIVE Sum(_)
Sum(t) == IF t = << >> THEN 0 ELSE Head(t) + Sum(Tail(t))

\* Math.max(...temps), Math.min(...temps)
Max(t) == CHOOSE x \in {t[i] : i \in 1..Len(t)} : \A j \in 1..Len(t) : t[j] <= x

Min(t) == CHOOSE x \in {t[i] : i \in 1..Len(t)} : \A j \in 1..Len(t) : t[j] >= x

\* Mutant: 1.5 itself is not tight.
SpreadClassStrict(spread) ==
  IF spread < 150000 THEN "tight" ELSE IF spread <= 300000 THEN "medium" ELSE "wide"

\* spread <= 1.5 ? 'tight' : spread <= 3 ? 'medium' : 'wide'
SpreadClass(spread) ==
  IF spread <= 150000 THEN "tight" ELSE IF spread <= 300000 THEN "medium" ELSE "wide"

\* createCityCard(data) for the selected day: the values it collected, the
\* source rows, the average as the fraction sum/count (null: << >>), and the
\* spread row.
createCityCard(data, dayIndex) ==
  LET ordered == OfType(data.sources, "live") \o OfType(data.sources, "recorded")
                   \o OfType(data.sources, "forecast") \o OfType(data.sources, "model")
      temps == Temps(ordered, data.unit, dayIndex) IN
  [rendered |-> TRUE,
   temps |-> temps,
   sourceRows |-> SourceRows(ordered, data.unit, dayIndex),
   avg |-> IF Len(temps) > 0 THEN <<Sum(temps), Len(temps)>> ELSE << >>,
   spread |-> IF Len(temps) >= 2 THEN Num(Max(temps) - Min(temps)) ELSE << >>,
   cls |-> IF Len(temps) >= 2 THEN SpreadClass(Max(temps) - Min(temps)) ELSE ""]

\* The client holds a report for the city shown; nothing is rendered yet.
CardInit ==
  /\ ServerInit
  /\ selectedDay = 0
  /\ cardData \in CardInputs
  /\ card = NoCard
  /\ convIn = NoConv
  /\ convOut = << >>
  /\ results = NoResults
  /\ extracted = NoExtract
  /\ PageIdle

\* renderAll(): the card of the city is rebuilt from the report held.
renderAll ==
  /\ card' = createCityCard(cardData, selectedDay)
  /\ UNCHANGED <<selectedDay, cardData, convIn, convOut, results, extracted, page>>
  /\ UNCHANGED <<now, ticks, CACHE, pc, city, dayOffset, tasks, fetch, sources, scraped,
                 site, dateStr, cacheKey, delayUntil, queries, report>>

\* A click on a day button: selectedDay = parseInt(btn.dataset.day), then
\* renderAll().
ClickDay(d) ==
  /\ selectedDay' = d
  /\ card' = createCityCard(cardData, d)
  /\ UNCHANGED <<cardData, convIn, convOut, results, extracted, page>>
  /\ UNCHANGED <<now, ticks, CACHE, pc, city, dayOffset, tasks, fetch, sources, scraped,
                 site, dateStr, cacheKey, delayUntil, queries, report>>

CardNext ==
  \/ renderAll
  \/ \E d \in 0..2 : ClickDay(d)

SpecCard == CardInit /\ [][CardNext]_vars

\* ------------------------------------------------- converter round trips
ConvGrid == (0 - MaxHundredths)..(2 * MaxHundredths)

\* A temperature with two decimals, in either unit, is about to be
\* converted to the other unit and back.
ConvInit ==
  /\ ServerInit
  /\ selectedDay = 0
  /\ cardData = NoCardData
  /\ card = NoCard
  /\ convIn \in {[unit |-> u, val |-> v] : u \in {"C", "F"}, v \in ConvGrid}
  /\ convOut = << >>
  /\ results = NoResults
  /\ extracted = NoExtract
  /\ PageIdle

\* fToC(cToF(c))
RoundTripC ==
  /\ convIn.unit = "C" /\ convOut = << >>
  /\ convOut' = fToC(cToFq(convIn.val, 100))
  /\ UNCHANGED <<selectedDay, cardData, card, convIn, results, extracted, page>>
  /\ UNCHANGED <<now, ticks, CACHE, pc, city, dayOffset, tasks, fetch, sources, scraped,
                 site, dateStr, cacheKey, delayUntil, queries, report>>

\* cToF(fToC(f))
RoundTripF ==
  /\ convIn.unit = "F" /\ convOut = << >>
  /\ convOut' = cToF(fToCq(convIn.val, 100))
  /\ UNCHANGED <<selectedDay, cardData, card, convIn, results, extracted, page>>
  /\ UNCHANGED <<now, ticks, CACHE, pc, city, dayOffset, tasks, fetch, sources, scraped,
                 site, dateStr, cacheKey, delayUntil, queries, report>>

ConvNext == RoundTripC \/ RoundTripF

SpecConv == ConvInit /\ [][ConvNext]_vars

\* ------------------------------------------------- the result loop
\* The loop over data.web.results of a search response, on its own.  A text
\* (res.description + ' ' + res.title, lower-cased) is a sequence of pieces
\* separated by other words; a piece is a phrase one or more of the
\* matchers can match, with the numbers it holds:
\*   "high"     high of 41           "highdeg"  high 40\u00B0
\*   "max"      max 32               "pair"     31/75\u00B0
\*   "deg"      0\u00B0              "daytime"  maximum daytime temperature: 20
\*   "word"     any other word
MaxPieces == 3

Pieces ==
  { [kind |-> "high", a |-> 41, b |-> 0], [kind |-> "highdeg", a |-> 40, b |-> 0],
    [kind |-> "max", a |-> 32, b |-> 0], [kind |-> "pair", a |-> 31, b |-> 75],
    [kind |-> "deg", a |-> 0, b |-> 0], [kind |-> "daytime", a |-> 20, b |-> 0],
    [kind |-> "word", a |-> 0, b |-> 0] }

Texts == UNION {[1..n -> Pieces] : n \in 0..MaxPieces}

\* The texts a second result is drawn from: no phrase at all, a bare degree
\* marker, an explicit phrase.
SecondTexts ==
  { << >>, <<[kind |-> "deg", a |-> 0, b |-> 0]>>, <<[kind |-> "high", a |-> 41, b |-> 0]>> }

ExtractInputs ==
  {[city |-> c, texts |-> ts] :
     c \in {"paris", "dallas"},
     ts \in {<< >>} \cup {<<t>> : t \in Texts} \cup {<<t, u>> : t \in Texts, u \in SecondTexts}}

\* match[1] of one regular expression on one piece, or << >> (no match):
\*   "high"     /high (?:of )?(\d+)/i
\*   "max"      /max (?:of )?(\d+)/i
\*   "pair"     /(\d+)\u00B0?\s?\/\s?(\d+)\u00B0/
\*   "deg"      /(\d+)\u00B0/
\*   "daytime"  /maximum daytime temperature:?\s*(\d+)/i
Capture(re, piece) ==
  CASE re = "high" /\ piece.kind \in {"high", "highdeg"} -> <<piece.a>>
    [] re = "max" /\ piece.kind = "max" -> <<piece.a>>
    [] re = "pair" /\ piece.kind = "pair" -> <<piece.a>>
    [] re = "deg" /\ piece.kind \in {"highdeg", "deg"} -> <<piece.a>>
    [] re = "deg" /\ piece.kind = "pair" -> <<piece.b>>
    [] re = "daytime" /\ piece.kind = "daytime" -> <<piece.a>>
    [] OTHER -> << >>

Least(S) == CHOOSE x \in S : \A y \in S : x <= y

\* text.match(re): the leftmost match.
MatchOf(re, text) ==
  LET at == {i \in 1..Len(text) : Capture(re, text[i]) # << >>} IN
  IF at = {} THEN << >> ELSE Capture(re, text[Least(at)])

\* m1 || m2 || ... : the match of the first expression of the list that
\* matches; server.js's extractFirstTemp is the same walk over `patterns`.
extractFirstTemp(text, patterns) ==
  LET hit == {k \in 1..Len(patterns) : MatchOf(patterns[k], text) # << >>} IN
  IF hit = {} THEN << >> ELSE MatchOf(patterns[Least(hit)], text)

\* Mutant: the bare degree marker is tried first.
PatternsBareFirst == <<"deg", "high", "max", "pair">>

\* The matchers of scrapeForecastForDay, in the order of its || chain.
Patterns == <<"high", "max", "pair", "deg">>

\* The matchers of the older scrapeForecast.
OldPatterns == <<"daytime", "high", "max", "deg">>

\* for (const res of results) { ...; if (match) { ...; break } }: the match
\* of the first result that has one.
FirstResult(texts, patterns) ==
  LET hit == {i \in 1..Len(texts) : extractFirstTemp(texts[i], patterns) # << >>} IN
  IF hit = {} THEN << >> ELSE extractFirstTemp(texts[Least(hit)], patterns)

ExtractCfg == STATIONS[results.city]

ExtractInit ==
  /\ ServerInit
  /\ selectedDay = 0
  /\ cardData = NoCardData
  /\ card = NoCard
  /\ convIn = NoConv
  /\ convOut = << >>
  /\ results \in ExtractInputs
  /\ extracted = NoExtract
  /\ PageIdle

\* scrapeForecastForDay's loop over the results of one target (day 0).
ExtractRun ==
  LET match == FirstResult(results.texts, Patterns) IN
  /\ extracted = NoExtract
  /\ extracted' =
       [by |-> "scrapeForecastForDay", match |-> match,
        found |-> IF match # << >>
                  THEN <<ScrapedSource(ExtractCfg, ExtractCfg.scrapperUrls[1], 0, match[1])>>
                  ELSE << >>]
  /\ UNCHANGED <<selectedDay, cardData, card, convIn, convOut, results, page>>
  /\ UNCHANGED <<now, ticks, CACHE, pc, city, dayOffset, tasks, fetch, sources, scraped,
                 site, dateStr, cacheKey, delayUntil, queries, report>>

\* The older scrapeForecast's loop and its `if (maxTemp) scraped.push(...)`.
OldExtractRun ==
  LET match == FirstResult(results.texts, OldPatterns) IN
  /\ extracted = NoExtract
  /\ extracted' =
       [by |-> "scrapeForecast", match |-> match,
        found |-> IF match # << >> /\ AutoUnit(ExtractCfg, match[1] * 10) # Num(0)
                  THEN <<ScrapedSource(ExtractCfg, ExtractCfg.scrapperUrls[1], 0, match[1])>>
                  ELSE << >>]
  /\ UNCHANGED <<selectedDay, cardData, card, convIn, convOut, results, page>>
  /\ UNCHANGED <<now, ticks, CACHE, pc, city, dayOffset, tasks, fetch, sources, scraped,
                 site, dateStr, cacheKey, delayUntil, queries, report>>

ExtractNext == ExtractRun \/ OldExtractRun

SpecExtract == ExtractInit /\ [][ExtractNext]_vars

\* ------------------------------------------------------ the v2.1 client
\* src/unnamed/part_000 (src/app.js has the same refresh cycle and the same
\* fetchAllData without the day).  A response is the record of the request
\* it answers (city, day) and of the body it carried (rev).
ResponseRevs == {1, 2}

Response(c, d, rev) == [city |-> c, day |-> d, rev |-> rev]

\* Everything of the model that no step of the page touches.
offPage == <<now, ticks, CACHE, pc, city, dayOffset, tasks, fetch, sources, scraped,
             site, dateStr, cacheKey, delayUntil, queries, report,
             cardData, card, convIn, convOut, results, extracted>>

\* fetchAllData(day) up to `await Promise.all(promises)`: one fetch per
\* city.  `then` is what the caller does when the call resolves: "cycle"
\* (init: startRefreshCycle()), "reset" (the refresh button: countdown =
\* REFRESH_SECONDS) or "none".
fetchAllData(day, then) ==
  [st |-> "running", day |-> day, then |-> then, res |-> [c \in CITIES |-> "pending"]]

FreeSlots == {k \in CallSlots : calls[k].st = "free"}

FirstFree == CHOOSE k \in FreeSlots : \A j \in FreeSlots : k <= j

\* renderAll(): for every city the data of the selected day, or a loading
\* card (<< >>).
Render(data, day) == [c \in CITIES |-> data[c][day]]

\* Mutant: the interval already running is left running.
SetCountdownIntervalNoClear == intervals \cup {countdownInterval + 1}

\* if (countdownInterval) clearInterval(countdownInterval);
\* countdownInterval = setInterval(...): the intervals then set.
SetCountdownInterval ==
  (IF countdownInterval # 0 THEN intervals \ {countdownInterval} ELSE intervals)
    \cup {countdownInterval + 1}

\* The page once the script has run init() up to `await fetchAllData(0)`.
PageInit ==
  /\ ServerInit
  /\ selectedDay = 0
  /\ cardData = NoCardData
  /\ card = NoCard
  /\ convIn = NoConv
  /\ convOut = << >>
  /\ results = NoResults
  /\ extracted = NoExtract
  /\ countdown = REFRESH_SECONDS
  /\ countdownInterval = 0
  /\ intervals = {}
  /\ cityData = [c \in CITIES |-> [d \in Days |-> << >>]]
  /\ calls = [k \in CallSlots |-> IF k = 1 THEN fetchAllData(0, "cycle") ELSE NoCall]
  /\ dashboard = Render(cityData, 0)

\* startRefreshCycle()
startRefreshCycle ==
  /\ countdownInterval < MaxCycles
  /\ countdown' = REFRESH_SECONDS
  /\ intervals' = SetCountdownInterval
  /\ countdownInterval' = countdownInterval + 1
  /\ UNCHANGED <<selectedDay, cityData, calls, dashboard, offPage>>

\* The callback of countdown interval i.
IntervalTick(i) ==
  /\ i \in intervals
  /\ IF countdown - 1 <= 0
     THEN /\ FreeSlots # {}
          /\ calls' = [calls EXCEPT ![FirstFree] = fetchAllData(selectedDay, "none")]
          /\ countdown' = REFRESH_SECONDS
     ELSE /\ countdown' = countdown - 1
          /\ UNCHANGED calls
  /\ UNCHANGED <<selectedDay, countdownInterval, intervals, cityData, dashboard, offPage>>

\* A click on the refresh button.
ManualRefresh ==
  /\ FreeSlots # {}
  /\ calls' = [calls EXCEPT ![FirstFree] = fetchAllData(selectedDay, "reset")]
  /\ UNCHANGED <<selectedDay, countdown, countdownInterval, intervals, cityData, dashboard,
                 offPage>>

\* A click on the button of day d (v2.1): fetch when some city lacks the
\* day, render otherwise.
SelectDay(d) ==
  /\ selectedDay' = d
  /\ IF \E c \in CITIES : cityData[c][d] = << >>
     THEN /\ FreeSlots # {}
          /\ calls' = [calls EXCEPT ![FirstFree] = fetchAllData(d, "none")]
          /\ UNCHANGED dashboard
     ELSE /\ dashboard' = Render(cityData, d)
          /\ UNCHANGED calls
  /\ UNCHANGED <<countdown, countdownInterval, intervals, cityData, offPage>>

\* if (!cityData[city]) cityData[city] = {}; cityData[city][day] = data
Store(k, c, data) ==
  [cityData EXCEPT ![c][calls[k].day] = data]

\* The promise of city c in call k settles with outcome st, cityData
\* becoming `data`.  When it is the last of the call, Promise.all resolves
\* and fetchAllData runs to its end (renderAll), and so does its caller.
Settle(k, c, st, data) ==
  /\ calls[k].res[c] = "pending"
  /\ cityData' = data
  /\ IF \A o \in CITIES \ {c} : calls[k].res[o] # "pending"
     THEN /\ calls' = [calls EXCEPT ![k] = NoCall]
          /\ dashboard' = Render(data, selectedDay)
          /\ CASE calls[k].then = "cycle" ->
                    /\ countdownInterval < MaxCycles
                    /\ countdown' = REFRESH_SECONDS
                    /\ intervals' = SetCountdownInterval
                    /\ countdownInterval' = countdownInterval + 1
               [] calls[k].then = "reset" ->
                    /\ countdown' = REFRESH_SECONDS
                    /\ UNCHANGED <<countdownInterval, intervals>>
               [] OTHER -> UNCHANGED <<countdown, countdownInterval, intervals>>
     ELSE /\ calls' = [calls EXCEPT ![k].res[c] = st]
          /\ UNCHANGED <<dashboard, countdown, countdownInterval, intervals>>
  /\ UNCHANGED <<selectedDay, offPage>>

\* fetch and res.json() resolved for city c of call k.
FetchOk(k, c, rev) ==
  /\ calls[k].st = "running"
  /\ Settle(k, c, "ok", Store(k, c, Response(c, calls[k].day, rev)))

\* Mutant: a failed fetch empties the slot.
FetchFailClears(k, c) ==
  /\ calls[k].st = "running"
  /\ Settle(k, c, "failed", Store(k, c, << >>))

\* fetch or res.json() rejected for city c of call k: caught and logged.
FetchFail(k, c) ==
  /\ calls[k].st = "running"
  /\ Settle(k, c, "failed", cityData)

\* The refresh cycle: the timer, the button, calls of startRefreshCycle.
RefreshRevs == {1}

RefreshNext ==
  \/ startRefreshCycle
  \/ \E i \in 1..MaxCycles : IntervalTick(i)
  \/ ManualRefresh
  \/ \E k \in CallSlots, c \in CITIES, rev \in RefreshRevs : FetchOk(k, c, rev)
  \/ \E k \in CallSlots, c \in CITIES : FetchFail(k, c)

SpecRefresh == PageInit /\ [][RefreshNext]_vars

\* The fetches: the day buttons, the refresh button, the responses.
FetchNext ==
  \/ \E d \in Days : SelectDay(d)
  \/ ManualRefresh
  \/ \E k \in CallSlots, c \in CITIES, rev \in ResponseRevs : FetchOk(k, c, rev)
  \/ \E k \in CallSlots, c \in CITIES : FetchFail(k, c)

SpecFetch == PageInit /\ [][FetchNext]_vars

\* ================================================================ claims
\* A request is running its own scrape sequence.
InPass(r) == pc[r] \in {"delay", "fetch"}

\* The step in which request r calls scrapeForecastForDay (the lookup).
LookupStep(r) == pc[r] = "fanout" /\ pc'[r] # "fanout"

\* The step in which request r's scrape sequence ends (store and return).
PassEnds(r) == InPass(r) /\ pc'[r] = "responded"

\* The key request r resolves at the current clock reading.
KeyNow(r) == <<Cfg(r).displayName, dayOffset[r][1], DateStr(now, dayOffset[r])>>

\* C1: single-flight.  Two resolutions of the same (city, dayOffset, date)
\* key never both run a scrape sequence of their own: at no moment are two
\* requests with the same key inside the scrape loop with outbound queries
\* issued by each.
C1_SingleFlight ==
  \A r1, r2 \in Reqs :
    (r1 # r2 /\ InPass(r1) /\ InPass(r2) /\ cacheKey[r1] = cacheKey[r2])
      => ~(queries[r1] > 0 /\ queries[r2] > 0)

\* C2: concurrent resolutions of one key return the same list.  A request
\* whose own scrape sequence ends while a valid entry for its key is stored
\* looked the key up before that entry was populated (it missed), so the
\* entry is the result of a concurrent resolution: the list this request
\* returns must be the list stored.
C2_SameList ==
  [][\A r \in Reqs :
       (PassEnds(r) /\ cacheKey[r] \in DOMAIN CACHE
          /\ now - CACHE[cacheKey[r]].ts < CACHE_TTL)
         => scraped'[r] = CACHE[cacheKey[r]].data]_vars

\* C3: cache hit.  A lookup at a clock reading strictly below ts + 5 min of
\* the entry stored under the request's key responds at once with the
\* stored list appended, issues no scrape query and leaves the cache alone.
C3_CacheHit ==
  [][\A r \in Reqs :
       (LookupStep(r) /\ ~IsNaN(dayOffset[r]) /\ KeyNow(r) \in DOMAIN CACHE
          /\ now < CACHE[KeyNow(r)].ts + 5 * 60 * 1000)
         => /\ pc'[r] = "responded"
            /\ report'[r] = [status |-> 200,
                             sources |-> sources[r] \o CACHE[KeyNow(r)].data]
            /\ queries'[r] = 0
            /\ fetch'[r]["brave"].st = "none"
            /\ CACHE' = CACHE]_vars

\* C3 witness: a request answered from the cache, strictly after the entry
\* was stored, with a non-empty stored list and no query of its own.
C3_Witness ==
  \E r \in Reqs :
    /\ pc[r] = "responded" /\ report[r].status = 200 /\ queries[r] = 0
    /\ cacheKey[r] \in DOMAIN CACHE
    /\ CACHE[cacheKey[r]].data # << >>
    /\ now > CACHE[cacheKey[r]].ts
    /\ Len(report[r].sources) > Len(CACHE[cacheKey[r]].data)

\* C4: cache expiry.  A lookup at a clock reading at or past ts + 5 min of
\* the stored entry is not answered from it: the request starts a scrape
\* sequence (first target, no response yet), and the sequence's end replaces
\* the entry with its own list and the time it ended.
C4_CacheExpiry ==
  [][\A r \in Reqs :
       /\ (LookupStep(r) /\ ~IsNaN(dayOffset[r]) /\ KeyNow(r) \in DOMAIN CACHE
             /\ now >= CACHE[KeyNow(r)].ts + 5 * 60 * 1000)
            => /\ pc'[r] = "delay" /\ site'[r] = 1 /\ scraped'[r] = << >>
               /\ report'[r] = NoReport
       /\ PassEnds(r)
            => CACHE'[cacheKey[r]] = [ts |-> now, data |-> scraped'[r]]]_vars

\* C4 witness: a request that has just looked up (at this clock reading) a
\* key whose entry is 5 min old or older, and is in the first delay of a
\* fresh sequence.
C4_Witness ==
  \E r \in Reqs :
    /\ pc[r] = "delay" /\ site[r] = 1 /\ queries[r] = 0
    /\ delayUntil[r] = now + ScrapeDelayMs
    /\ cacheKey[r] \in DOMAIN CACHE
    /\ now - CACHE[cacheKey[r]].ts >= 5 * 60 * 1000

\* A request answered from the cache (no query of its own).
ServedFromCache(r) == pc[r] = "responded" /\ report[r].status = 200 /\ queries[r] = 0

\* C5: no cross-date hit.  A request answered from the cache was given the
\* list of a scrape sequence run for the same city, the same day offset and
\* the same target calendar date (the other request's sequence, there being
\* two requests).
C5_NoCrossDate ==
  \A r1, r2 \in Reqs :
    (r1 # r2 /\ ServedFromCache(r2))
      => /\ pc[r1] = "responded" /\ queries[r1] > 0
         /\ city[r1] = city[r2]
         /\ dayOffset[r1] = dayOffset[r2]
         /\ dateStr[r1] = dateStr[r2]

\* C5 witness: an entry for (city, dayOffset) populated less than 5 min ago
\* for another calendar date, and a request for the same (city, dayOffset)
\* that has just looked up and was not served it.
C5_Witness ==
  \E r \in Reqs : \E k \in DOMAIN CACHE :
    /\ pc[r] = "delay" /\ site[r] = 1 /\ queries[r] = 0
    /\ delayUntil[r] = now + ScrapeDelayMs
    /\ k[1] = Cfg(r).displayName /\ k[2] = dayOffset[r][1]
    /\ k[3] # dateStr[r]
    /\ now - CACHE[k].ts < 5 * 60 * 1000

\* The elements of a sequence.
Range(seq) == {seq[i] : i \in 1..Len(seq)}

\* The adapters of request r that succeeded, and what each one produced.
Succeeded(r) == {a \in tasks[r] : fetch[r][a].st = "ok"}

Produced(r, a) == ServerSources(ServerCfg(r), a, fetch[r][a].data)

\* The ids of the Sources adapter a can push for request r.
IdsOf(r, a) ==
  UNION {{src.id : src \in Range(ServerSources(ServerCfg(r), a, d))} : d \in ServerPayloads(a)}

\* C6: unknown city.  A request whose city key is not a configured key of
\* the registry is rejected with the unknown-city error, launches no
\* provider call, issues no scrape query and leaves the cache as it was.
C6_UnknownCity ==
  \A r \in Reqs :
    (pc[r] # "idle" /\ city[r] \notin DOMAIN ServerSTATIONS)
      => /\ pc[r] = "rejected" /\ report[r].status = 400
         /\ tasks[r] = {}
         /\ \A s \in Slots : fetch[r][s].st = "none"
         /\ queries[r] = 0
         /\ CACHE = << >>

\* C7: partial failure never aborts.  For a known city the handler is never
\* aborted or rejected, whatever subset of its adapters fails or times out;
\* once every adapter settled the response can be sent; and the report sent
\* holds exactly the Sources the succeeded adapters produced, each once, and
\* no Source of a failed adapter.
C7_PartialFailure ==
  \A r \in Reqs :
    (pc[r] # "idle" /\ city[r] \in DOMAIN ServerSTATIONS)
      => /\ pc[r] \in {"fanout", "responded"}
         /\ (pc[r] = "fanout" /\ AllSettled(r)) => ENABLED ServerRespond(r)
         /\ pc[r] = "responded"
              => /\ report[r].status = 200
                 /\ Range(report[r].sources)
                      = UNION {Range(Produced(r, a)) : a \in Succeeded(r)}
                 /\ \A a \in Succeeded(r) :
                      \A src \in Range(Produced(r, a)) :
                        Cardinality({i \in 1..Len(report[r].sources) :
                                       report[r].sources[i] = src}) = 1
                 /\ \A a \in tasks[r] \ Succeeded(r) :
                      \A i \in 1..Len(report[r].sources) :
                        report[r].sources[i].id \notin IdsOf(r, a)

\* C7 witness: a report for Dallas in which the grid forecast and the page
\* scrape failed, the multi-model adapter succeeded, and every Source is a
\* model Source.
C7_Witness ==
  \E r \in Reqs :
    /\ pc[r] = "responded" /\ city[r] = "dallas"
    /\ fetch[r]["nws_forecast"].st = "failed"
    /\ fetch[r]["wu"].st = "failed"
    /\ fetch[r]["openmeteo"].st = "ok"
    /\ report[r].sources # << >>
    /\ \A i \in 1..Len(report[r].sources) : report[r].sources[i].type = "model"

\* C8: a request always gets a report.  No handler run for a known city
\* ends without a response having been sent, whatever the day parameter.
C8_AlwaysReport ==
  \A r \in Reqs : city[r] \in DOMAIN STATIONS => pc[r] # "threw"

\* C9: every call is bounded by its timeout.  A call still pending when its
\* timeout has elapsed is about to be cancelled: its abort timer is live
\* (a due timer runs before any other callback).
C9_BoundedByTimeout ==
  \A r \in Reqs : \A s \in Slots :
    (Unsettled(fetch[r][s]) /\ now >= fetch[r][s].deadline)
      => TimerArmed(fetch[r][s])

\* C10: wait-for-all.  A response is sent only when every launched adapter
\* task has settled, and the request's Source list is the one sent: nothing
\* is added to it after the response.
C10_WaitForAll ==
  \A r \in Reqs :
    pc[r] = "responded"
      => /\ \A a \in tasks[r] : Settled(fetch[r][a])
         /\ sources[r] = report[r].sources

\* C10 witness: a response sent after five adapters settled, three of them
\* with Sources and one by failure.
C10_Witness ==
  \E r \in Reqs :
    /\ pc[r] = "responded"
    /\ Cardinality(tasks[r]) >= 5
    /\ Cardinality({a \in Succeeded(r) : Produced(r, a) # << >>}) >= 3
    /\ \E a \in tasks[r] : fetch[r][a].st = "failed"

\* C11: no sibling cancellation.  A step in which one adapter call of a
\* request fails or is aborted by its timeout leaves every other call of the
\* request exactly as it was (pending calls stay pending with their own
\* timer, the page-scrape calls included), leaves the handler where it was
\* and the Sources collected untouched; and a sibling whose body arrives,
\* whatever has failed before, pushes the Sources its callback produces.
C11_NoSiblingCancel ==
  [][\A r \in Reqs : \A a \in tasks[r] :
       /\ (Unsettled(fetch[r][a]) /\ fetch'[r][a].st = "failed")
            => /\ \A b \in Slots \ {a} : fetch'[r][b] = fetch[r][b]
               /\ pc'[r] = pc[r]
               /\ sources'[r] = sources[r]
       /\ (fetch[r][a].st = "body" /\ fetch'[r][a].st = "ok")
            => sources'[r] = sources[r]
                 \o ServerSources(ServerCfg(r), a, fetch'[r][a].data)]_vars

\* C11 witness: after the timeouts of the calls still waiting for headers
\* have expired, a request with a failed adapter call whose page scrape and
\* one more sibling succeeded and contributed their Sources.
C11_Witness ==
  \E r \in Reqs :
    /\ ticks = 1
    /\ \E a \in tasks[r] : fetch[r][a].st = "failed"
    /\ fetch[r]["wu"].st = "ok" /\ Produced(r, "wu") # << >>
    /\ Range(Produced(r, "wu")) \subseteq Range(sources[r])
    /\ \E b \in tasks[r] \ {"wu"} :
         /\ fetch[r][b].st = "ok" /\ Produced(r, b) # << >>
         /\ Range(Produced(r, b)) \subseteq Range(sources[r])

\* C12: the inter-request delay is charged between targets, not before the
\* first.  The step that issues the query for the first configured target
\* does not come off the delay timer, and the step that issues the query
\* for any later target does.
C12_DelayBetweenTargets ==
  [][\A r \in Reqs :
       queries'[r] = queries[r] + 1
         => IF site[r] = 1 THEN pc[r] # "delay" ELSE pc[r] = "delay"]_vars

\* The calls of the scrape class: the search query of the scrape loop and
\* the page scrapes of server.js.
ScrapeSlots == {"brave", "metoffice", "wu"}

\* C13: the scrape adapter is always routed through the Scrape Cache.  A
\* request has a scrape call issued (pending or settled) only if it has
\* looked its (city, dayOffset, date) key up in the cache before, and
\* missed: its key is set, it has not been answered from the cache.
C13_ScrapeThroughCache ==
  \A r \in Reqs : \A s \in ScrapeSlots :
    (s \in tasks[r] \/ fetch[r][s].st # "none" \/ queries[r] > 0)
      => cacheKey[r] # << >>

\* C14: a sequence that failed entirely stores an ordinary entry.  When the
\* query of the last target fails or is aborted and no earlier target
\* contributed, the resolution returns the empty list (the report holds the
\* adapters' Sources only) and stores [now, empty list].  A later lookup of
\* a key whose entry holds the empty list is answered with the empty list
\* while now < ts + 5 min, and starts a fresh sequence (first target, no
\* response yet) once now >= ts + 5 min.
C14_EmptyEntryExpires ==
  [][\A r \in Reqs :
       /\ ((ScrapeFail(r) \/ ScrapeTimeout(r))
             /\ site[r] = Len(Cfg(r).scrapperUrls) /\ scraped[r] = << >>)
            => /\ CACHE'[cacheKey[r]] = [ts |-> now, data |-> << >>]
               /\ pc'[r] = "responded"
               /\ report'[r] = [status |-> 200, sources |-> sources[r]]
       /\ (LookupStep(r) /\ ~IsNaN(dayOffset[r]) /\ KeyNow(r) \in DOMAIN CACHE
             /\ CACHE[KeyNow(r)].data = << >>)
            => IF now < CACHE[KeyNow(r)].ts + 5 * 60 * 1000
               THEN /\ pc'[r] = "responded"
                    /\ report'[r] = [status |-> 200, sources |-> sources[r]]
                    /\ queries'[r] = 0
               ELSE /\ pc'[r] = "delay" /\ site'[r] = 1 /\ scraped'[r] = << >>
                    /\ report'[r] = NoReport]_vars

\* C14 witness: an entry holding the empty list, 5 min old or older, and a
\* request for its key that has just looked it up and is in the first delay
\* of a fresh sequence.
C14_Witness ==
  \E r \in Reqs :
    /\ pc[r] = "delay" /\ site[r] = 1 /\ queries[r] = 0
    /\ delayUntil[r] = now + ScrapeDelayMs
    /\ cacheKey[r] \in DOMAIN CACHE
    /\ CACHE[cacheKey[r]].data = << >>
    /\ now - CACHE[cacheKey[r]].ts >= 5 * 60 * 1000

\* The (temp_c, temp_f) pairs a Source carries, whatever its shape.
Pairs(src) ==
  (IF "temp_c" \in DOMAIN src THEN {<<src.temp_c, src.temp_f>>} ELSE {})
    \cup (IF "forecasts" \in DOMAIN src
          THEN {<<fc.temp_c, fc.temp_f>> : fc \in Range(src.forecasts)} ELSE {})
    \cup (IF "dailyMax" \in DOMAIN src
          THEN {<<e.temp_c, e.temp_f>> : e \in Range(src.dailyMax)} ELSE {})

\* One field of the pair is the one-decimal conversion of the other.
PairOK(c, f) == f = cToF(c) \/ c = fToC(f)

\* C15: every temperature pair of every Source of every report, when both
\* fields are present, has temp_f = round10(temp_c * 9/5 + 32) or
\* temp_c = round10((temp_f - 32) * 5/9).
C15_PairConsistent ==
  \A r \in Reqs : \A src \in Range(report[r].sources) : \A p \in Pairs(src) :
    (p[1] # << >> /\ p[2] # << >>) => PairOK(p[1], p[2])

\* The non-null primary values of every Source of the report held, for the
\* selected day, in list order.
PrimaryValues == Temps(cardData.sources, cardData.unit, selectedDay)

\* C16: the average is the mean of exactly the non-null primary values.  A
\* rendered card's average has the sum and the count of the primary values
\* of all the Sources of the report that have one for the selected day,
\* whatever their kind, and is null (never zero) when there is none.
C16_AverageOfDefined ==
  card.rendered
    => IF PrimaryValues = << >> THEN card.avg = << >>
       ELSE card.avg = <<Sum(PrimaryValues), Len(PrimaryValues)>>

\* C17: spread suppression.  A rendered card has no spread and no class
\* when the report's Sources have 0 or 1 non-null primary value for the
\* selected day, and otherwise has the spread max - min over those values.
C17_SpreadSuppression ==
  card.rendered
    => IF Len(PrimaryValues) < 2 THEN card.spread = << >> /\ card.cls = ""
       ELSE card.spread = Num(Max(PrimaryValues) - Min(PrimaryValues))

\* C18: spread classification.  Whenever a card shows a spread, its class
\* is tight exactly when the spread is <= 1.5, medium exactly when it is
\* > 1.5 and <= 3, and wide exactly when it is > 3 (exactly one of them).
C18_SpreadClass ==
  (card.rendered /\ card.spread # << >>)
    => /\ card.cls \in {"tight", "medium", "wide"}
       /\ card.cls = "tight" <=> card.spread[1] <= 150000
       /\ card.cls = "medium" <=> (card.spread[1] > 150000 /\ card.spread[1] <= 300000)
       /\ card.cls = "wide" <=> card.spread[1] > 300000

\* C18 witness: a card whose spread is exactly 1.5, classified tight.
C18_Witness ==
  card.rendered /\ card.spread = Num(150000) /\ card.cls = "tight"

\* The distance between the result of a round trip and its argument, in
\* hundredths of a degree.
RoundTripError ==
  IF convOut[1] * 10 >= convIn.val THEN convOut[1] * 10 - convIn.val
  ELSE convIn.val - convOut[1] * 10

\* C19 as stated: a round trip through the two converters, from Celsius or
\* from Fahrenheit, ends within 0.1 of its argument.
C19_RoundTrip ==
  convOut # << >> => RoundTripError <= 10

\* C19 amended: a round trip from a Celsius argument ends within 0.1 of it,
\* and a round trip from a Fahrenheit argument within 0.14 of it.
C19_RoundTripAmended ==
  convOut # << >>
    => IF convIn.unit = "C" THEN RoundTripError <= 10 ELSE RoundTripError <= 14

\* C19 witness: a Fahrenheit argument whose round trip ends 0.13 away.
C19_Witness ==
  convIn.unit = "F" /\ convOut # << >> /\ RoundTripError = 13

\* The scrape queries of request r that are in flight.
QuerySlots == {"brave"} \cup DaySlots

InFlight(r) == {s \in QuerySlots : Unsettled(fetch[r][s])}

\* C20: the targets of a scrape sequence are queried in registry order and
\* one at a time.  At most one scrape query of a request is in flight at any
\* moment: a step that issues a query finds none in flight; and the
\* sequence moves from a target to the next one of the registry only.
C20_OneAtATime ==
  [][\A r \in Reqs :
       /\ Cardinality(InFlight(r)) <= 1
       /\ queries'[r] = queries[r] + 1 => InFlight(r) = {}
       /\ site'[r] # site[r] => site'[r] = site[r] + 1]_vars

\* The step in which request r issues the query for its current target.
IssuesQuery(r) == pc[r] = "delay" /\ pc'[r] = "fetch"

\* The step in which the query of request r's current target ends without a
\* match: a rejection, a timeout, or a body none of whose results matches.
QueryYieldsNothing(r) ==
  \/ ScrapeFail(r)
  \/ ScrapeTimeout(r)
  \/ \E d \in BravePayloads : d.kind = "nomatch" /\ ScrapeBody(r, d)

\* C21: within one scrape sequence each configured target is queried at most
\* once.  The n-th query a sequence issues is the query of the n-th target
\* of the station, so no target is queried twice and there are never more
\* queries than targets; and a target whose query fails or yields no match
\* adds nothing to the list and is passed over: the sequence moves to the
\* next target or ends.
C21_NoRetry ==
  [][\A r \in Reqs :
       /\ IssuesQuery(r) =>
            /\ queries'[r] = site[r]
            /\ queries'[r] <= Len(Cfg(r).scrapperUrls)
       /\ QueryYieldsNothing(r) =>
            /\ scraped'[r] = scraped[r]
            /\ \/ pc'[r] = "delay" /\ site'[r] = site[r] + 1
               \/ pc'[r] = "responded" /\ site[r] = Len(Cfg(r).scrapperUrls)]_vars

\* A sequence over four targets that ended after four queries, two of which
\* contributed nothing.
C21_Witness ==
  /\ pc[1] = "responded"
  /\ Len(Cfg(1).scrapperUrls) = 4
  /\ queries[1] = 4
  /\ Len(scraped[1]) = 2

\* The step in which the query of request r's current target succeeds with a
\* result that matches a temperature pattern.
QueryMatches(r) == \E d \in BravePayloads : d.kind = "match" /\ ScrapeBody(r, d)

\* The position of a scraped Source's target in the station's target list.
TargetIndex(cfg, src) ==
  CHOOSE i \in 1..Len(cfg.scrapperUrls) : cfg.scrapperUrls[i] = src.id[2]

\* A list of scraped Sources of the station's targets, in target order, at
\* most one per target, none for a target after the n-th.
InTargetOrder(cfg, list, n) ==
  /\ \A i \in 1..Len(list) :
       /\ list[i].type = "scraped"
       /\ \E k \in 1..n : k <= Len(cfg.scrapperUrls) /\ cfg.scrapperUrls[k] = list[i].id[2]
  /\ \A i, j \in 1..Len(list) :
       i < j => TargetIndex(cfg, list[i]) < TargetIndex(cfg, list[j])

\* C22: the list a scrape sequence produces holds at most one scraped
\* Source per configured target, in target order, and a Source for a target
\* exactly when that target's query succeeded with a matching result.  The
\* list changes only in the step in which the current target's query
\* matches, and that step appends the one Source of that target; at every
\* moment the list is in target order over the targets reached so far; and
\* the list the sequence ends with is the list stored under its cache key.
C22_ListPerTarget ==
  [][\A r \in Reqs :
       /\ QueryMatches(r) <=> scraped'[r] # scraped[r]
       /\ QueryMatches(r) =>
            /\ Len(scraped'[r]) = Len(scraped[r]) + 1
            /\ scraped'[r][Len(scraped'[r])].id =
                 <<"scraped", Cfg(r).scrapperUrls[site[r]], dayOffset[r][1]>>
       /\ InPass(r) => InTargetOrder(Cfg(r), scraped[r], site[r])
       /\ PassEnds(r) =>
            /\ InTargetOrder(Cfg(r), scraped'[r], Len(Cfg(r).scrapperUrls))
            /\ CACHE'[cacheKey[r]].data = scraped'[r]]_vars

\* A sequence over four targets that ended with the Sources of the second
\* and the fourth target only, stored under its key.
C22_Witness ==
  /\ pc[1] = "responded"
  /\ queries[1] = 4
  /\ Len(scraped[1]) = 2
  /\ scraped[1][1].id[2] = Cfg(1).scrapperUrls[2]
  /\ scraped[1][2].id[2] = Cfg(1).scrapperUrls[4]
  /\ CACHE[cacheKey[1]].data = scraped[1]

\* Request r has begun scraping: a scrape query or its timer has been set
\* up, or a query has been issued.
ScrapeBegun(r) == queries[r] > 0 \/ \E s \in QuerySlots : fetch[r][s].st # "none"

\* C23: scraped Sources are resolved only after the whole adapter fan-out
\* has settled, and are appended.  While an adapter call of a request is
\* still pending the request has set up and issued no scrape query; and in
\* a report no Source of a non-scrape adapter comes after a scraped Source.
C23_ScrapeAfterFanOut ==
  \A r \in Reqs :
    /\ ScrapeBegun(r) => \A a \in tasks[r] : fetch[r][a].st \in {"ok", "failed"}
    /\ (pc[r] = "responded" /\ report[r].status = 200)
         => \A i, j \in 1..Len(report[r].sources) :
              (i < j /\ report[r].sources[i].type = "scraped")
                => report[r].sources[j].type = "scraped"

\* A report of a station with four adapters that holds the Sources of more
\* than one adapter followed by a scraped Source.
C23_Witness ==
  \E r \in Reqs :
    /\ pc[r] = "responded"
    /\ report[r].status = 200
    /\ Cardinality(tasks[r]) = 4
    /\ Len(report[r].sources) >= 3
    /\ report[r].sources[1].type # "scraped"
    /\ report[r].sources[2].type # "scraped"
    /\ report[r].sources[Len(report[r].sources)].type = "scraped"

\* C24: auto-unit correction of an extracted value v.  For a Celsius
\* station a Source pushed for v > 40 has temp_c = fToC(v) and one pushed
\* for v <= 40 has temp_c = v; for a Fahrenheit station a Source pushed for
\* v < 32 has temp_f = cToF(v) and one pushed for v >= 32 has temp_f = v;
\* and the field of the other unit is the conversion of the corrected value.
C24_AutoUnit ==
  (extracted.by # "none" /\ extracted.found # << >>) =>
    LET v == extracted.match[1]
        src == extracted.found[1] IN
    /\ ExtractCfg.unit = "C" =>
         /\ v > 40 => src.temp_c = fToC(Num(v * 10))
         /\ v <= 40 => src.temp_c = Num(v * 10)
         /\ src.temp_f = cToF(src.temp_c)
    /\ ExtractCfg.unit = "F" =>
         /\ v < 32 => src.temp_f = cToF(Num(v * 10))
         /\ v >= 32 => src.temp_f = Num(v * 10)
         /\ src.temp_c = fToC(src.temp_f)

\* A Celsius station's result captured 41, which was taken for Fahrenheit:
\* 5.0 C, 41.0 F.
C24_Witness ==
  /\ extracted.by = "scrapeForecastForDay"
  /\ ExtractCfg.unit = "C"
  /\ extracted.match = <<41>>
  /\ extracted.found # << >>
  /\ extracted.found[1].temp_c = <<50>>
  /\ extracted.found[1].temp_f = <<410>>

\* The pieces of a text that are an explicit 'high' phrase, an explicit
\* 'max' phrase.
HighAt(text) == {i \in 1..Len(text) : text[i].kind \in {"high", "highdeg"}}

MaxAt(text) == {i \in 1..Len(text) : text[i].kind = "max"}

\* The results none of scrapeForecastForDay's matchers matches.
Silent(text) == \A i \in 1..Len(text) : text[i].kind \in {"word", "daytime"}

\* C25: extraction tries the matchers in fixed priority order on the same
\* text and stops at the first that matches.  The value scrapeForecastForDay
\* captures comes from the first result that is not silent; when that result
\* holds an explicit 'high' phrase the value is the number of its first
\* 'high' phrase, and failing that, when it holds an explicit 'max' phrase,
\* the number of its first 'max' phrase, whatever bare degree markers stand
\* before or after it; and no value is captured only when every result is
\* silent.
C25_MatcherPriority ==
  extracted.by = "scrapeForecastForDay" =>
    LET texts == results.texts
        loud == {i \in 1..Len(texts) : ~Silent(texts[i])} IN
    /\ loud = {} <=> extracted.match = << >>
    /\ loud # {} =>
         LET text == texts[Least(loud)] IN
         /\ HighAt(text) # {} => extracted.match = <<text[Least(HighAt(text))].a>>
         /\ (HighAt(text) = {} /\ MaxAt(text) # {})
              => extracted.match = <<text[Least(MaxAt(text))].a>>
         /\ (HighAt(text) = {} /\ MaxAt(text) = {})
              => extracted.match # << >>

\* A result with a bare degree marker before and after an explicit 'max'
\* phrase yielded the number of the phrase.
C25_Witness ==
  /\ extracted.by = "scrapeForecastForDay"
  /\ Len(results.texts) >= 1
  /\ Len(results.texts[1]) = 3
  /\ results.texts[1][1].kind = "deg"
  /\ results.texts[1][2].kind = "max"
  /\ results.texts[1][3].kind = "deg"
  /\ extracted.match = <<32>>

\* A model Source whose day list does not reach the selected day.
ShortModel(src) == src.type = "model" /\ Len(src.days) < selectedDay + 1

\* The report held, without the Sources that satisfy Drop.
ReportWithout(Drop(_)) ==
  [unit |-> cardData.unit, sources |-> SelectSeq(cardData.sources, LAMBDA x : ~Drop(x))]

\* The card's values, average and spread are those of the card of `data`.
SameFigures(data) ==
  LET other == createCityCard(data, selectedDay) IN
  /\ card.temps = other.temps
  /\ card.avg = other.avg
  /\ card.spread = other.spread
  /\ card.cls = other.cls

\* C26: day-offset bounds.  A model Source whose day list has fewer than
\* dayOffset + 1 entries yields no primary and no secondary value at that
\* offset, raises no error (the card is rendered, with a row for the Source)
\* and is left out of the average and the spread: the card's values,
\* average and spread are those of the report without such Sources.
C26_DayOffsetBounds ==
  card.rendered =>
    /\ \A i \in 1..Len(card.sourceRows) :
         ShortModel(card.sourceRows[i].src)
           => card.sourceRows[i].primary = << >> /\ card.sourceRows[i].secondary = << >>
    /\ Len(SelectSeq(card.sourceRows, LAMBDA row : ShortModel(row.src)))
         = Len(SelectSeq(cardData.sources, ShortModel))
    /\ SameFigures(ReportWithout(ShortModel))

\* The card for tomorrow of a report that holds a model Source covering
\* today only and two Sources with a value for tomorrow.
C26_Witness ==
  /\ card.rendered
  /\ selectedDay = 1
  /\ \E i \in 1..Len(cardData.sources) : ShortModel(cardData.sources[i])
  /\ Len(card.temps) = 2
  /\ card.spread # << >>

\* A live or recorded Source.
Flat(src) == src.type \in {"live", "recorded"}

\* C27: a live or recorded Source has a primary value only for day 0.  On
\* day 1 or 2 it contributes nothing to the average, the source count or
\* the spread: the card has no row for it and its values, average and
\* spread are those of the report without live and recorded Sources.  On
\* day 0 its primary is the field of the station's display unit and its
\* secondary the field of the other unit.
C27_FlatTodayOnly ==
  card.rendered =>
    /\ selectedDay # 0 =>
         /\ \A i \in 1..Len(card.sourceRows) : ~Flat(card.sourceRows[i].src)
         /\ SameFigures(ReportWithout(Flat))
    /\ selectedDay = 0 =>
         /\ \A i \in 1..Len(card.sourceRows) :
              Flat(card.sourceRows[i].src) =>
                LET row == card.sourceRows[i] IN
                /\ row.primary = IF cardData.unit = "F" THEN row.src.temp_f
                                 ELSE row.src.temp_c
                /\ row.secondary = IF cardData.unit = "F" THEN row.src.temp_c
                                   ELSE row.src.temp_f
         /\ Len(SelectSeq(card.sourceRows, LAMBDA row : Flat(row.src)))
              = Len(SelectSeq(cardData.sources, Flat))

\* The card for tomorrow of a report that holds a live Source with a value
\* and two Sources with a value for tomorrow.
C27_Witness ==
  /\ card.rendered
  /\ selectedDay = 1
  /\ \E i \in 1..Len(cardData.sources) :
       Flat(cardData.sources[i]) /\ cardData.sources[i].temp_c # << >>
  /\ Len(card.temps) = 2
  /\ card.spread # << >>

\* The adapters of the US feeds, each with the configuration field it
\* depends on.
FeedAdapters ==
  {<<"nws_obs", "nwsStation">>, <<"nws_forecast", "nwsGrid">>, <<"iem", "iemNetwork">>}

\* C28: adapter applicability.  For a station whose configuration has no
\* observation station, no forecast grid or no historical-summary network,
\* the corresponding adapter is never launched for a request of that
\* station (it is not among the request's tasks and its fetch was never
\* started), and neither the Sources collected nor the report hold a Source
\* of that adapter.
C28_Applicability ==
  \A r \in Reqs :
    city[r] \in DOMAIN ServerSTATIONS =>
      \A p \in FeedAdapters :
        ServerSTATIONS[city[r]][p[2]] = "null" =>
          /\ p[1] \notin tasks[r]
          /\ fetch[r][p[1]].st = "none"
          /\ \A i \in 1..Len(sources[r]) : sources[r][i].id # <<p[1]>>
          /\ \A i \in 1..Len(report[r].sources) : report[r].sources[i].id # <<p[1]>>

\* A report for Paris, which has none of the three feeds, with the Sources
\* of its other adapters.
C28_Witness ==
  \E r \in Reqs :
    /\ city[r] = "paris"
    /\ pc[r] = "responded"
    /\ report[r].status = 200
    /\ tasks[r] = {"metar", "openmeteo", "wu"}
    /\ Len(report[r].sources) >= 3

\* The step in which request r's lookup is a hit: it is answered from the
\* cache.
HitStep(r) == LookupStep(r) /\ pc'[r] = "responded"

\* C29: a cache hit leaves the Scrape Cache unchanged, timestamp and list,
\* so the TTL is not sliding.  A hit changes nothing in the cache; an entry
\* changes only when a scrape sequence for its key ends; and a lookup made
\* TTL or more after the entry's timestamp is a miss, whatever hits the
\* entry received in between.
C29_HitLeavesCache ==
  [][/\ \A r \in Reqs : HitStep(r) => CACHE' = CACHE
     /\ \A k \in DOMAIN CACHE :
          (k \notin DOMAIN CACHE' \/ CACHE'[k] # CACHE[k])
            => \E r \in Reqs : PassEnds(r) /\ cacheKey[r] = k
     /\ \A r \in Reqs :
          (LookupStep(r) /\ pc'[r] # "threw" /\ KeyNow(r) \in DOMAIN CACHE
             /\ now - CACHE[KeyNow(r)].ts >= CACHE_TTL)
            => pc'[r] = "delay" /\ queries'[r] = 0]_vars

\* An entry was populated, then served to one request half a TTL later, and
\* a further request that looked the same key up a full TTL after the
\* entry's timestamp missed: it is in its first delay, the entry as it was.
C29_Witness ==
  \E r1, r2 \in Reqs :
    /\ ServedFromCache(r1)
    /\ CACHE[cacheKey[r1]].ts < now
    /\ pc[r2] = "delay" /\ site[r2] = 1 /\ queries[r2] = 0
    /\ cacheKey[r2] = cacheKey[r1]
    /\ now - CACHE[cacheKey[r2]].ts = CACHE_TTL
    /\ Len(CACHE[cacheKey[r1]].data) > 0

\* C30: a cache entry's timestamp is the moment its scrape sequence
\* finished, not the moment it started.  A sequence starts with a lookup
\* that sets its first timer 1500 ms ahead, the timer stays as set until it
\* fires, no query is issued before it is due, and the clock never goes
\* back; the step that ends a sequence, which has issued a query by then,
\* stores the list of that sequence with the clock reading of that step,
\* over whatever entry the key held (so that of two overlapping sequences
\* for one key the one that finishes last leaves its list and its
\* timestamp); and the timestamp of an entry never decreases.
C30_TimestampAtFinish ==
  [][/\ now' >= now
     /\ \A r \in Reqs :
          /\ (LookupStep(r) /\ pc'[r] = "delay") => delayUntil'[r] = now + ScrapeDelayMs
          /\ (pc[r] = "delay" /\ pc'[r] = "delay" /\ site'[r] = site[r])
               => delayUntil'[r] = delayUntil[r]
          /\ IssuesQuery(r) => now >= delayUntil[r]
          /\ PassEnds(r) =>
               /\ queries[r] >= 1
               /\ CACHE'[cacheKey[r]] = [ts |-> now, data |-> scraped'[r]]
     /\ \A k \in DOMAIN CACHE :
          k \in DOMAIN CACHE' /\ CACHE'[k].ts >= CACHE[k].ts]_vars

\* Two requests ran a sequence of their own for one key and ended with
\* different lists; the entry holds the list of one of them, stamped with
\* the current clock reading, two or more readings after the first.
C30_Witness ==
  \E r1, r2 \in Reqs :
    /\ r1 # r2
    /\ pc[r1] = "responded" /\ pc[r2] = "responded"
    /\ queries[r1] > 0 /\ queries[r2] > 0
    /\ cacheKey[r1] = cacheKey[r2]
    /\ scraped[r1] # scraped[r2]
    /\ CACHE[cacheKey[r2]].data = scraped[r2]
    /\ CACHE[cacheKey[r2]].ts = now
    /\ now > T0 + STEP

\* C31: every scraped Source of a Fahrenheit station has temp_f >= 32 and
\* every scraped Source of a Celsius station has temp_c >= 0, whatever the
\* texts of the search results hold (values in tenths of a degree).
C31_ScrapedFloor ==
  extracted.by # "none" =>
    \A i \in 1..Len(extracted.found) :
      LET src == extracted.found[i] IN
      /\ src.temp_c # << >> /\ src.temp_f # << >>
      /\ ExtractCfg.unit = "F" => src.temp_f[1] >= 320
      /\ ExtractCfg.unit = "C" => src.temp_c[1] >= 0

\* A Fahrenheit station's result captured 0, below freezing as Fahrenheit:
\* it was taken for Celsius and the Source holds exactly 32.0 F.
C31_Witness ==
  /\ extracted.by = "scrapeForecastForDay"
  /\ ExtractCfg.unit = "F"
  /\ extracted.match = <<0>>
  /\ extracted.found # << >>
  /\ extracted.found[1].temp_f = <<320>>

\* The fetchAllData calls in progress.
Running == {k \in CallSlots : calls[k].st = "running"}

\* The step is a tick of a countdown interval.
TickStep == \E i \in 1..MaxCycles : IntervalTick(i)

\* C32: the client's refresh cycle.  After any sequence of startRefreshCycle
\* calls, ticks and manual refreshes at most one countdown interval is set;
\* after every tick the countdown is in 1..REFRESH_SECONDS; a tick that
\* brings the countdown to 0 starts exactly one fetchAllData call, with one
\* fetch pending for every city, and resets the countdown to
\* REFRESH_SECONDS; and any other tick starts no call and takes one second
\* off the countdown.
C32_RefreshCycle ==
  [][/\ Cardinality(intervals') <= 1
     /\ TickStep =>
          /\ countdown' \in 1..REFRESH_SECONDS
          /\ countdown = 1 =>
               /\ countdown' = REFRESH_SECONDS
               /\ \E k \in CallSlots \ Running :
                    /\ calls' = [calls EXCEPT ![k] = calls'[k]]
                    /\ calls'[k].st = "running"
                    /\ calls'[k].day = selectedDay
                    /\ \A c \in CITIES : calls'[k].res[c] = "pending"
          /\ countdown # 1 =>
               /\ countdown' = countdown - 1
               /\ calls' = calls]_vars

\* The one interval left by a second startRefreshCycle call has just ticked
\* the countdown to 0: the countdown is back at REFRESH_SECONDS and the
\* call the tick started has a fetch pending for every city.
C32_Witness ==
  /\ countdownInterval >= 2
  /\ intervals = {countdownInterval}
  /\ countdown = REFRESH_SECONDS
  /\ \E k \in Running :
       calls[k].then = "none" /\ \A c \in CITIES : calls[k].res[c] = "pending"

\* The promise of city c is the last of call k still pending.
LastOf(k, c) ==
  /\ calls[k].st = "running"
  /\ calls[k].res[c] = "pending"
  /\ \A o \in CITIES \ {c} : calls[k].res[o] # "pending"

\* C33: a fetch failure of the client is isolated per city.  A failed fetch
\* leaves cityData as it was, the failed city's slot included; a fetch that
\* succeeds stores its response under its own city and the day of its call
\* and changes no other slot, whatever became of the other cities' fetches;
\* when the last fetch of a call settles, failed or not, the call ends and
\* the page is rendered from cityData for the selected day; and the data
\* under a (city, day) slot is always a response to a request for that city
\* and that day.
C33_FetchIsolation ==
  [][/\ \A k \in CallSlots, c \in CITIES :
          /\ FetchFail(k, c) => cityData' = cityData
          /\ \A rev \in ResponseRevs :
               FetchOk(k, c, rev) =>
                 cityData' = [cityData EXCEPT ![c][calls[k].day] =
                                [city |-> c, day |-> calls[k].day, rev |-> rev]]
          /\ (LastOf(k, c) /\ (FetchFail(k, c) \/ \E rev \in ResponseRevs : FetchOk(k, c, rev)))
               => /\ calls'[k].st = "free"
                  /\ dashboard' = [x \in CITIES |-> cityData'[x][selectedDay]]
     /\ \A c \in CITIES, d \in Days :
          cityData'[c][d] # << >> => cityData'[c][d].city = c /\ cityData'[c][d].day = d]_vars

\* In a call for tomorrow made while today is selected again, the fetch of
\* one city has failed and has left the data the city had for tomorrow,
\* while the other city's fetch is still pending.
C33_Witness ==
  \E k \in CallSlots, c \in CITIES :
    /\ calls[k].st = "running"
    /\ calls[k].day = 1
    /\ selectedDay = 0
    /\ calls[k].res[c] = "failed"
    /\ cityData[c][1] # << >>
    /\ \E o \in CITIES \ {c} : calls[k].res[o] = "pending"
====
